---- MODULE Spec2Model ----
(***************************************************************************)
(* Model of the command auto-reply engine (runCommandReply) and of the pi  *)
(* agent (piSpec.buildArgs, parsePiJson).                                  *)
(*                                                                         *)
(* Data representation.                                                    *)
(*  - A command-line argument is a sequence of atoms (strings); the empty  *)
(*    sequence is the empty string.  Joining is concatenation.             *)
(*  - Array indices are 0-based as in the source; At/Splice give the       *)
(*    JavaScript semantics of a[i] and Array.prototype.splice.             *)
(*  - Output text is a run-length encoded string: a sequence of chunks     *)
(*    [t |-> piece, n |-> number of characters].                           *)
(***************************************************************************)
EXTENDS Integers, Sequences, FiniteSets, TLC

VARIABLES
    pc,         \* position inside runCommandReply
    params,     \* CommandReplyParams of the call
    argv,       \* the working argv (let argv)
    bodyIndex,  \* let bodyIndex
    finalArgv,  \* const finalArgv
    rpc,        \* what run() handed to the runner: [used, argv, prompt]
    queued,     \* [set, ahead]: queuedMs/queuedAhead written by onWait
    outcome,    \* what the runner produced
    result,     \* [threw, payloads, meta] of the call
    commandQueue, \* the command queue shared by concurrent calls
    sessionStore, \* the session store, its clock and the turns of a session
    onboarding,   \* the onboarding view: cursor, connection mode, monitors
    testRun       \* the parallel test runner and its vitest children

vars == <<pc, params, argv, bodyIndex, finalArgv, rpc, queued, outcome, result, commandQueue,
          sessionStore, onboarding, testRun>>

\* the components outside runCommandReply and its queue
otherVars == <<sessionStore, onboarding, testRun>>

----------------------------------------------------------------------------
(* JavaScript array helpers, 0-based *)

Max(a, b) == IF a >= b THEN a ELSE b
Min(a, b) == IF a <= b THEN a ELSE b

\* a[i], with the empty string for undefined (both are falsy)
At(a, i) == IF i >= 0 /\ i < Len(a) THEN a[i + 1] ELSE <<>>

\* a.slice(from, to)
Slice(a, from, to) == SubSeq(a, Max(from, 0) + 1, Min(to, Len(a)))

\* the array after a.splice(start, del, ...ins); a negative start counts from the end
Splice(a, start, del, ins) ==
    LET s == IF start < 0 THEN Max(Len(a) + start, 0) ELSE Min(start, Len(a))
        d == Min(Max(del, 0), Len(a) - s)
    IN  Slice(a, 0, s) \o ins \o Slice(a, s + d, Len(a))

\* a.includes(x) / a.indexOf(x)
Includes(a, x) == \E i \in 1..Len(a) : a[i] = x
IndexOf(a, x) ==
    IF Includes(a, x)
    THEN (CHOOSE i \in 1..Len(a) : a[i] = x /\ \A j \in 1..(i - 1) : a[j] # x) - 1
    ELSE 0 - 1

\* a with a[i] = v (0-based, i in range)
SetAt(a, i, v) == [a EXCEPT ![i + 1] = v]

\* s.trim() on a sequence of atoms: whitespace atoms at both ends removed
IsSpaceAtom(x) == x \in {" ", "\n", "\n\n"}
RECURSIVE TrimLeft(_)
TrimLeft(s) ==
    IF s # <<>> /\ IsSpaceAtom(Head(s)) THEN TrimLeft(Tail(s)) ELSE s
RECURSIVE TrimRight(_)
TrimRight(s) ==
    IF s # <<>> /\ IsSpaceAtom(s[Len(s)]) THEN TrimRight(SubSeq(s, 1, Len(s) - 1)) ELSE s
TrimAtoms(s) == TrimRight(TrimLeft(s))

\* parts.filter(Boolean).join(sep)
RECURSIVE JoinNonEmpty(_, _)
JoinNonEmpty(parts, sep) ==
    IF parts = <<>> THEN <<>>
    ELSE LET rest == JoinNonEmpty(Tail(parts), sep)
         IN  IF Head(parts) = <<>> THEN rest
             ELSE IF rest = <<>> THEN Head(parts)
             ELSE Head(parts) \o <<sep>> \o rest

----------------------------------------------------------------------------
(* Templating *)

\* applyTemplate(part, ctx): the recognised tokens are replaced, the rest is verbatim
RECURSIVE applyTemplate(_, _)
applyTemplate(part, ctx) ==
    IF part = <<>> THEN <<>>
    ELSE (IF Head(part) = "{{Body}}" THEN ctx.Body
          ELSE IF Head(part) = "{{SessionId}}" THEN <<ctx.SessionId>>
          ELSE <<Head(part)>>) \o applyTemplate(Tail(part), ctx)

TemplateCtx(p) == [Body |-> p.body, SessionId |-> p.sessionId]

----------------------------------------------------------------------------
(* runCommandReply: building the argv *)

\* let argv = reply.command.map((part) => applyTemplate(part, templatingCtx))
templatedCommand(p) ==
    [i \in 1..Len(p.command) |-> applyTemplate(p.command[i], TemplateCtx(p))]

\* variant that sends the template on every turn: C16 must not hold of it
templatePrefixAlways(p) ==
    IF p.template # <<>> THEN applyTemplate(p.template, TemplateCtx(p)) ELSE <<>>

\* const templatePrefix = reply.template && (...) ? applyTemplate(...) : ""
templatePrefix(p) ==
    IF p.template # <<>>
       /\ (~p.sendSystemOnce \/ p.isFirstTurnInSession \/ ~p.systemSent)
    THEN applyTemplate(p.template, TemplateCtx(p))
    ELSE <<>>

\* argv = [argv[0], templatePrefix, ...argv.slice(1)]
withTemplatePrefix(p) ==
    LET a == templatedCommand(p)
    IN  IF templatePrefix(p) # <<>> /\ Len(a) > 0
        THEN <<a[1], templatePrefix(p)>> \o Tail(a)
        ELSE a

\* the switch on agentCfg.kind
defaultSessionArgs(kind) ==
    CASE kind = "claude" ->
            [newArgs    |-> << <<"--session-id">>, <<"{{SessionId}}">> >>,
             resumeArgs |-> << <<"--resume">>, <<"{{SessionId}}">> >>]
      [] kind = "gemini" ->
            [newArgs    |-> << >>,
             resumeArgs |-> << <<"--resume">>, <<"{{SessionId}}">> >>]
      [] OTHER ->
            [newArgs    |-> << <<"--session">>, <<"{{SessionId}}">> >>,
             resumeArgs |-> << <<"--session">>, <<"{{SessionId}}">> >>]

\* (isNewSession ? sessionArgNew ?? defaultNew : sessionArgResume ?? defaultResume).map(applyTemplate)
sessionArgList(p) ==
    LET d   == defaultSessionArgs(p.kind)
        raw == IF p.isNewSession
               THEN (IF p.session.sessionArgNew.set THEN p.session.sessionArgNew.v ELSE d.newArgs)
               ELSE (IF p.session.sessionArgResume.set THEN p.session.sessionArgResume.v
                     ELSE d.resumeArgs)
    IN  [i \in 1..Len(raw) |-> applyTemplate(raw[i], TemplateCtx(p))]

\* the state (argv, bodyIndex) after the "if (reply.session)" block
withSessionArgs(p) ==
    LET a    == withTemplatePrefix(p)
        base == [argv |-> a, bodyIndex |-> Max(Len(a) - 1, 0)]
    IN  IF ~p.session.on THEN base
        ELSE LET sl == sessionArgList(p)
             IN  IF Len(sl) = 0 THEN base
                 ELSE LET insertBeforeBody == (p.session.sessionArgBeforeBody # "false")
                          insertAt == IF insertBeforeBody /\ Len(a) > 1
                                      THEN Len(a) - 1 ELSE Len(a)
                          b == Slice(a, 0, insertAt) \o sl \o Slice(a, insertAt, Len(a))
                      IN  [argv |-> b, bodyIndex |-> Max(Len(b) - 1, 0)]

ThinkLevels == {"off", "minimal", "low", "medium", "high"}

\* the cue switch of appendThinkingCue
thinkingCue(level) ==
    CASE level = "high"    -> <<"ultrathink">>
      [] level = "medium"  -> <<"think harder">>
      [] level = "low"     -> <<"think hard">>
      [] level = "minimal" -> <<"think">>
      [] OTHER             -> <<>>

appendThinkingCue(body, level) ==
    IF level = "unset" \/ level = "off" THEN body
    ELSE JoinNonEmpty(<<TrimAtoms(body), thinkingCue(level)>>, " ")

\* argv.some((p, i) => p === "--thinking" || argv[i-1] === "--thinking" || p.startsWith("--thinking="))
hasThinkingFlag(a) ==
    \E i \in 1..Len(a) :
        \/ a[i] = <<"--thinking">>
        \/ (i > 1 /\ a[i - 1] = <<"--thinking">>)
        \/ (a[i] # <<>> /\ Head(a[i]) = "--thinking=")

\* the state (argv, bodyIndex) after the "if (thinkLevel && thinkLevel !== 'off')" block
withThinking(p) ==
    LET s == withSessionArgs(p)
    IN  IF p.thinkLevel = "unset" \/ p.thinkLevel = "off" THEN s
        ELSE IF p.kind = "pi"
        THEN IF hasThinkingFlag(s.argv) THEN s
             ELSE [argv |-> Splice(s.argv, s.bodyIndex, 0, << <<"--thinking">>, <<p.thinkLevel>> >>),
                   bodyIndex |-> s.bodyIndex + 2]
        ELSE IF At(s.argv, s.bodyIndex) # <<>>
        THEN [s EXCEPT !.argv = SetAt(s.argv, s.bodyIndex,
                                      appendThinkingCue(At(s.argv, s.bodyIndex), p.thinkLevel))]
        ELSE s

----------------------------------------------------------------------------
(* Agent specs *)

DirAtoms == {"/usr/local/bin/"}
JsExtAtoms == {".js", ".mjs"}

\* path.basename(argv[0]).replace(/\.(m?js)$/i, "")
RECURSIVE basename(_)
basename(arg) ==
    IF \E i \in 1..Len(arg) : arg[i] \in DirAtoms THEN basename(Tail(arg)) ELSE arg
stripJsExt(arg) ==
    IF arg # <<>> /\ arg[Len(arg)] \in JsExtAtoms THEN SubSeq(arg, 1, Len(arg) - 1) ELSE arg

piIsInvocation(a) ==
    IF Len(a) = 0 THEN FALSE
    ELSE LET base == stripJsExt(basename(a[1]))
         IN  base = <<"pi">> \/ base = <<"tau">>

\* piSpec.buildArgs(ctx)
piBuildArgs(ctx) ==
    LET a0 == ctx.argv
        a1 == IF ~Includes(a0, <<"-p">>) /\ ~Includes(a0, <<"--print">>)
              THEN Splice(a0, Len(a0) - 1, 0, << <<"-p">> >>)
              ELSE a0
        a2 == IF ctx.format = "json" /\ ~Includes(a1, <<"--mode">>)
              THEN Splice(a1, Len(a1) - 1, 0, << <<"--mode">>, <<"json">> >>)
              ELSE a1
    IN  IF ~(ctx.sendSystemOnce /\ ctx.systemSent) /\ At(a2, ctx.bodyIndex) # <<>>
        THEN SetAt(a2, ctx.bodyIndex,
                   JoinNonEmpty(<<ctx.identityPrefix, At(a2, ctx.bodyIndex)>>, "\n\n"))
        ELSE a2

\* The other agent specs (claude, codex, opencode, gemini) are not part of the
\* sources at hand; they follow the agent registry contract.
otherIsInvocation(kind, a) ==
    IF Len(a) = 0 THEN FALSE ELSE stripJsExt(basename(a[1])) = <<kind>>

otherBuildArgs(kind, ctx) ==
    IF kind # "claude" THEN ctx.argv
    ELSE LET body   == At(ctx.argv, ctx.bodyIndex)
             before == Slice(ctx.argv, 0, ctx.bodyIndex)
             after  == Slice(ctx.argv, ctx.bodyIndex + 1, Len(ctx.argv))
             fmt    == IF ctx.format # "unset" /\ ~Includes(ctx.argv, <<"--output-format">>)
                       THEN << <<"--output-format">>, <<ctx.format>> >> ELSE << >>
             ident  == IF ~(ctx.sendSystemOnce /\ ctx.systemSent) /\ body # <<>>
                       THEN JoinNonEmpty(<<ctx.identityPrefix, body>>, "\n\n") ELSE body
         IN  before \o fmt \o <<ident>> \o after

\* agent.isInvocation(argv) / agent.buildArgs(ctx) of getAgentSpec(kind)
agentIsInvocation(kind, a) ==
    IF kind = "pi" THEN piIsInvocation(a) ELSE otherIsInvocation(kind, a)
agentBuildArgs(kind, ctx) ==
    IF kind = "pi" THEN piBuildArgs(ctx) ELSE otherBuildArgs(kind, ctx)

\* the ctx object literal passed to agent.buildArgs
buildCtx(p, s) ==
    [argv |-> s.argv, bodyIndex |-> s.bodyIndex, sendSystemOnce |-> p.sendSystemOnce,
     systemSent |-> p.systemSent, identityPrefix |-> p.identityPrefix, format |-> p.format]

\* const finalArgv = shouldApplyAgent ? agent.buildArgs({...}) : argv
computeFinalArgv(p, s) ==
    IF agentIsInvocation(p.kind, s.argv) THEN agentBuildArgs(p.kind, buildCtx(p, s)) ELSE s.argv

----------------------------------------------------------------------------
(* run(): the pi RPC transport *)

\* const body = finalArgv[promptIndex] ?? ""
rpcPrompt(fa) == At(fa, Len(fa) - 1)

\* const rpcArgv = (() => { ... })()
rpcArgv(fa) ==
    LET copy    == Splice(fa, Len(fa) - 1, 1, << >>)
        modeIdx == IndexOf(copy, <<"--mode">>)
    IN  IF modeIdx >= 0 /\ At(copy, modeIdx + 1) # <<>>
        THEN Splice(copy, modeIdx, 2, << <<"--mode">>, <<"rpc">> >>)
        ELSE IF ~Includes(copy, <<"--mode">>)
        THEN Splice(copy, Len(copy) - 1, 0, << <<"--mode">>, <<"rpc">> >>)
        ELSE copy

----------------------------------------------------------------------------
(* Output text: run-length encoded strings *)

\* the string made of n characters of piece t
Lit(t, n) == << [t |-> t, n |-> n] >>

RECURSIVE TextLen(_)
TextLen(x) == IF x = <<>> THEN 0 ELSE Head(x).n + TextLen(Tail(x))

\* x.slice(0, k)
RECURSIVE TakeChars(_, _)
TakeChars(x, k) ==
    IF x = <<>> \/ k <= 0 THEN <<>>
    ELSE IF Head(x).n <= k THEN <<Head(x)>> \o TakeChars(Tail(x), k - Head(x).n)
    ELSE << [Head(x) EXCEPT !.n = k] >>

IsSpaceChunk(c) == c.t \in {" ", "\n"}
RECURSIVE TrimTextLeft(_)
TrimTextLeft(x) ==
    IF x # <<>> /\ IsSpaceChunk(Head(x)) THEN TrimTextLeft(Tail(x)) ELSE x
RECURSIVE TrimTextRight(_)
TrimTextRight(x) ==
    IF x # <<>> /\ IsSpaceChunk(x[Len(x)]) THEN TrimTextRight(SubSeq(x, 1, Len(x) - 1)) ELSE x
\* x.trim()
TrimText(x) == TrimTextRight(TrimTextLeft(x))

\* xs.join(sep)
RECURSIVE JoinTexts(_, _)
JoinTexts(xs, sep) ==
    IF xs = <<>> THEN <<>>
    ELSE IF Len(xs) = 1 THEN xs[1]
    ELSE xs[1] \o sep \o JoinTexts(Tail(xs), sep)

Newline == Lit("\n", 1)

\* xs.map((t) => t.trim()).filter(Boolean)
RECURSIVE trimAndFilter(_)
trimAndFilter(xs) ==
    IF xs = <<>> THEN <<>>
    ELSE (IF TrimText(Head(xs)) = <<>> THEN <<>> ELSE <<TrimText(Head(xs))>>)
         \o trimAndFilter(Tail(xs))

----------------------------------------------------------------------------
(* Agent output: stdout is a sequence of lines.  A line is                  *)
(*   [k, raw, ev]: k = "blank" (whitespace only), "plain" (text that does   *)
(*   not start with a brace), "json" (a JSON object, ev is its value) or    *)
(*   "badjson" (starts with a brace, JSON.parse throws).                    *)
(* An event is [type, hasMessage, role, contentIsArray, content, model];    *)
(* a content item is [type, textIsString, text].                            *)

\* the characters of stdout
stdoutText(lines) == JoinTexts([i \in 1..Len(lines) |-> lines[i].raw], Newline)

\* the lines of stdout.trim()
RECURSIVE dropBlankLeft(_)
dropBlankLeft(lines) ==
    IF lines # <<>> /\ Head(lines).k = "blank" THEN dropBlankLeft(Tail(lines)) ELSE lines
RECURSIVE dropBlankRight(_)
dropBlankRight(lines) ==
    IF lines # <<>> /\ lines[Len(lines)].k = "blank"
    THEN dropBlankRight(SubSeq(lines, 1, Len(lines) - 1)) ELSE lines
trimLines(lines) == dropBlankRight(dropBlankLeft(lines))

\* l.trim().startsWith("{")
startsWithBrace(line) == line.k \in {"json", "badjson"}

\* msg.content?.filter(text items).map((c) => c.text).join("\n").trim()
RECURSIVE textItems(_)
textItems(content) ==
    IF content = <<>> THEN <<>>
    ELSE (IF Head(content).type = "text" /\ Head(content).textIsString
          THEN <<Head(content).text>> ELSE <<>>) \o textItems(Tail(content))
messageText(msg) == TrimText(JoinTexts(textItems(msg.content), Newline))

isAnyEvent(ev) == TRUE

isMessageEvent(ev) == ev.type = "message" \/ ev.type = "message_end"

isToolRole(role) == role \in {"tool", "toolResult", "TOOL"}
isToolResult(ev) == isMessageEvent(ev) /\ ev.hasMessage /\ isToolRole(ev.role)
isAssistantMessage(ev) ==
    isMessageEvent(ev) /\ ev.hasMessage /\ ev.role = "assistant" /\ ev.contentIsArray

NoMeta == [present |-> FALSE, model |-> "undefined"]

\* variant that pushes every assistant text: C13 must not hold of it
piStepNoDedup(acc, line) ==
    IF line.k = "badjson" \/ ~isAssistantMessage(line.ev) \/ messageText(line.ev) = <<>>
    THEN acc
    ELSE [acc EXCEPT !.texts = Append(acc.texts, messageText(line.ev))]

\* one iteration of the for loop of parsePiJson over the accumulator
\* acc = [texts, toolResults, lastAssistant, lastPushed]
piStep(acc, line) ==
    IF line.k = "badjson" THEN acc
    ELSE IF ~isAssistantMessage(line.ev) /\ ~isToolResult(line.ev) THEN acc
    ELSE IF ~line.ev.contentIsArray THEN acc   \* .filter on a non-array throws: caught
    ELSE LET msgText == messageText(line.ev)
         IN  IF isAssistantMessage(line.ev)
             THEN IF msgText # <<>> /\ (~acc.lastPushed.set \/ msgText # acc.lastPushed.v)
                  THEN [texts         |-> Append(acc.texts, msgText),
                        toolResults   |-> acc.toolResults,
                        lastPushed    |-> [set |-> TRUE, v |-> msgText],
                        lastAssistant |-> [present |-> TRUE, model |-> line.ev.model]]
                  ELSE acc
             ELSE IF msgText # <<>>
                  THEN [acc EXCEPT !.toolResults = Append(acc.toolResults, msgText)]
                  ELSE acc

RECURSIVE piLoop(_, _)
piLoop(acc, lines) ==
    IF lines = <<>> THEN acc ELSE piLoop(piStep(acc, Head(lines)), Tail(lines))

\* variant whose loop ends at the first malformed line: C25 must not hold of it
parsePiJsonStopAtMalformed(lines) ==
    LET kept == SelectSeq(lines, startsWithBrace)
        bad == {i \in 1..Len(kept) : kept[i].k = "badjson"}
        upTo == IF bad = {} THEN Len(kept) ELSE (CHOOSE i \in bad : \A j \in bad : i <= j) - 1
        acc == piLoop([texts |-> <<>>, toolResults |-> <<>>,
                       lastPushed |-> [set |-> FALSE, v |-> <<>>],
                       lastAssistant |-> NoMeta],
                      SubSeq(kept, 1, upTo))
    IN  [texts       |-> acc.texts,
         toolResults |-> [set |-> acc.toolResults # <<>>, v |-> acc.toolResults],
         meta        |-> IF acc.lastAssistant.present /\ Len(acc.texts) > 0
                         THEN acc.lastAssistant ELSE NoMeta]

\* parsePiJson(raw): raw is given by its lines
parsePiJson(lines) ==
    LET acc == piLoop([texts |-> <<>>, toolResults |-> <<>>,
                       lastPushed |-> [set |-> FALSE, v |-> <<>>],
                       lastAssistant |-> NoMeta],
                      SelectSeq(lines, startsWithBrace))
    IN  [texts       |-> acc.texts,
         toolResults |-> [set |-> acc.toolResults # <<>>, v |-> acc.toolResults],
         meta        |-> IF acc.lastAssistant.present /\ Len(acc.texts) > 0
                         THEN acc.lastAssistant ELSE NoMeta]

\* parseOutput of the other agent kinds, after the agent registry contract:
\* plain text is a single element of texts, a stream of JSON events is parsed
\* like the pi stream.
otherParseOutput(lines) ==
    IF \E i \in 1..Len(lines) : startsWithBrace(lines[i])
    THEN parsePiJson(lines)
    ELSE [texts       |-> << stdoutText(lines) >>,
          toolResults |-> [set |-> FALSE, v |-> <<>>],
          meta        |-> NoMeta]

agentParseOutput(kind, lines) ==
    IF kind = "pi" THEN parsePiJson(lines) ELSE otherParseOutput(lines)

----------------------------------------------------------------------------
(* Media *)

HttpUrls   == {"https://example.com/a.png"}
LocalPaths == {"/tmp/small.png", "/tmp/big.png", "/tmp/gone.png"}

\* /^https?:\/\//i.test(url)
isHttpUrl(url) == url \in HttpUrls

\* the file system seen by fs.stat: size in bytes, or a rejection for a missing file
fileExists(path) == path \in {"/tmp/small.png", "/tmp/big.png"}
fileSize(path) == IF path = "/tmp/small.png" THEN 1024 * 1024 ELSE 1024 * 1024 + 1

\* splitMediaFromOutput(text): media references are taken out of the prose
isMediaChunk(c) == c.t \in (HttpUrls \cup LocalPaths)
RECURSIVE mediaOf(_)
mediaOf(x) ==
    IF x = <<>> THEN <<>>
    ELSE (IF isMediaChunk(Head(x)) THEN <<Head(x).t>> ELSE <<>>) \o mediaOf(Tail(x))
RECURSIVE proseOf(_)
proseOf(x) ==
    IF x = <<>> THEN <<>>
    ELSE (IF isMediaChunk(Head(x)) THEN <<>> ELSE <<Head(x)>>) \o proseOf(Tail(x))
splitMediaFromOutput(x) == [text |-> TrimText(proseOf(x)), mediaUrls |-> mediaOf(x)]

----------------------------------------------------------------------------
(* runCommandReply: turning the runner's outcome into payloads              *)
(* Exit code, signal and killed are kept as the text they print as:        *)
(* "null" / "undefined" stand for the JavaScript values.                    *)

ExcerptMaxChars == 500
PartialMaxChars == 800

isNullish(v) == v \in {"null", "undefined"}
isTruthyFlag(v) == v = "true"

Undef == [set |-> FALSE, v |-> <<>>]
Def(v) == [set |-> TRUE, v |-> v]
NoUrl == [set |-> FALSE, v |-> ""]

\* { text, media } of one replyItems entry
replyItem(split) ==
    [text |-> split.text,
     media |-> IF Len(split.mediaUrls) > 0 THEN Def(split.mediaUrls) ELSE Undef]

ToolPrefix == Lit("[tool] ", 3)

\* variant that forwards tool results whatever the verbose level: C15 must not hold of it
parsedItemsAllTools(p, parsed) ==
    LET parsedTexts == trimAndFilter(parsed.texts)
        parsedToolResults == trimAndFilter(parsed.toolResults.v)
    IN  [i \in 1..Len(parsedTexts) |-> replyItem(splitMediaFromOutput(parsedTexts[i]))]
        \o [i \in 1..Len(parsedToolResults) |->
              replyItem(splitMediaFromOutput(ToolPrefix \o parsedToolResults[i]))]

\* replyItems after the loops over parsedTexts and parsedToolResults
parsedItems(p, parsed) ==
    LET parsedTexts == trimAndFilter(parsed.texts)
        parsedToolResults == trimAndFilter(parsed.toolResults.v)
        fromTexts == [i \in 1..Len(parsedTexts) |->
                        replyItem(splitMediaFromOutput(parsedTexts[i]))]
        fromTools == IF p.verboseLevel = "on"
                     THEN [i \in 1..Len(parsedToolResults) |->
                            replyItem(splitMediaFromOutput(ToolPrefix \o parsedToolResults[i]))]
                     ELSE <<>>
    IN  fromTexts \o fromTools

\* const parsed = trimmed ? agent.parseOutput(trimmed) : undefined
parseIfAny(p, lines) ==
    IF stdoutText(lines) # <<>>
    THEN [set |-> TRUE, v |-> agentParseOutput(p.kind, lines)]
    ELSE [set |-> FALSE, v |-> [texts |-> <<>>, toolResults |-> [set |-> FALSE, v |-> <<>>],
                                meta |-> NoMeta]]

NoOutputText == Lit("(command produced no output)", 28)

\* replyItems as they stand before the exit-code checks
replyItems(p, lines) ==
    LET trimmed        == stdoutText(lines)
        parsed         == parseIfAny(p, lines)
        parserProvided == parsed.set
        items0 == IF parsed.set THEN parsedItems(p, parsed.v) ELSE <<>>
        raw    == splitMediaFromOutput(trimmed)
        items1 == IF Len(items0) = 0 /\ trimmed # <<>> /\ ~parserProvided
                     /\ (raw.text # <<>> \/ Len(raw.mediaUrls) > 0)
                  THEN <<replyItem(raw)>> ELSE items0
    IN  IF Len(items1) = 0 THEN << [text |-> NoOutputText, media |-> Undef] >> ELSE items1

\* the loop "for (const url of mediaUrls)" under mediaMaxMb
RECURSIVE filterMedia(_, _)
\* variant that skips the size filter: C10 must not hold of it
filterMediaKeepAll(urls, maxBytes) == urls

filterMedia(urls, maxBytes) ==
    IF urls = <<>> THEN <<>>
    ELSE LET url  == Head(urls)
             keep == \/ isHttpUrl(url)
                     \/ ~fileExists(url)            \* fs.stat rejects: kept
                     \/ fileSize(url) <= maxBytes
         IN  (IF keep THEN <<url>> ELSE <<>>) \o filterMedia(Tail(urls), maxBytes)

\* the payload built from one reply item, as a sequence of zero or one payloads
itemPayload(p, item) ==
    LET m0 == IF item.media.set THEN item.media
              ELSE IF p.mediaUrl # "" THEN Def(<<p.mediaUrl>>)
              ELSE Undef
        m1 == IF m0.set /\ Len(m0.v) > 0 /\ p.mediaMaxMb # 0
              THEN Def(filterMedia(m0.v, p.mediaMaxMb * 1024 * 1024))
              ELSE m0
    IN  IF item.text # <<>> \/ (m1.set /\ Len(m1.v) > 0)
        THEN << [text      |-> item.text,
                 mediaUrl  |-> IF m1.set /\ Len(m1.v) > 0 THEN [set |-> TRUE, v |-> m1.v[1]]
                               ELSE NoUrl,
                 mediaUrls |-> m1] >>
        ELSE <<>>

RECURSIVE buildPayloads(_, _)
buildPayloads(p, items) ==
    IF items = <<>> THEN <<>>
    ELSE itemPayload(p, Head(items)) \o buildPayloads(p, Tail(items))

textPayload(text) == [text |-> text, mediaUrl |-> NoUrl, mediaUrls |-> Undef]

codeText(code) == Lit(IF isNullish(code) THEN "unknown" ELSE code, 1)

\* errorText of the non-zero exit branch
\* variant that quotes the whole stdout: C7 must not hold of it
exitErrorTextUncut(o, trimmed) ==
    Lit("Command exited with code ", 25) \o codeText(o.code)
    \o (IF trimmed # <<>> THEN Lit("\n\nOutput: ", 10) \o trimmed ELSE <<>>)

exitErrorText(o, trimmed) ==
    LET partialOut == IF trimmed # <<>>
                      THEN Lit("\n\nOutput: ", 10) \o TakeChars(trimmed, ExcerptMaxChars)
                           \o (IF TextLen(trimmed) > ExcerptMaxChars THEN Lit("...", 3) ELSE <<>>)
                      ELSE <<>>
    IN  Lit("Command exited with code ", 25) \o codeText(o.code)
        \o (IF ~isNullish(o.signal)
            THEN Lit(" (", 2) \o Lit(o.signal, 7) \o Lit(")", 1) ELSE <<>>)
        \o partialOut

killedErrorText(o) ==
    Lit("Command was killed before completion (exit code ", 48) \o codeText(o.code) \o Lit(")", 1)

resultMetaUnqueued(q, o, agentMeta) ==
    [queued |-> [set |-> FALSE, ahead |-> 0], exitCode |-> o.code, signal |-> o.signal,
     killed |-> o.killed, agentMeta |-> agentMeta]

resultMeta(q, o, agentMeta) ==
    [queued |-> q, exitCode |-> o.code, signal |-> o.signal, killed |-> o.killed,
     agentMeta |-> agentMeta]

\* the try block after "await enqueue(run, ...)" for a runner that returned o
handleResult(p, q, o) ==
    LET lines   == trimLines(o.stdout)
        trimmed == stdoutText(lines)
        agentMeta == parseIfAny(p, lines).v.meta
        items   == replyItems(p, lines)
        meta    == resultMeta(q, o, agentMeta)
    IN  IF ~isNullish(o.code) /\ o.code # "0"
        THEN [threw |-> FALSE, payloads |-> << textPayload(exitErrorText(o, trimmed)) >>,
              meta |-> meta]
        ELSE IF isTruthyFlag(o.killed) /\ isNullish(o.signal)
        THEN [threw |-> FALSE, payloads |-> << textPayload(killedErrorText(o)) >>,
              meta |-> meta]
        ELSE [threw |-> FALSE, payloads |-> buildPayloads(p, items), meta |-> meta]

\* the text of the timeout payload
timeoutText(p, o) ==
    LET baseMsg == Lit("Command timed out after ", 24) \o Lit(ToString(p.timeoutSeconds), 3) \o Lit("s", 1)
                   \o (IF p.cwd # "" THEN Lit(" (cwd: ", 7) \o Lit(p.cwd, 5) \o Lit(")", 1)
                       ELSE <<>>)
                   \o Lit(". Try a shorter prompt or split the request.", 45)
        partial == IF o.stdoutSet THEN stdoutText(trimLines(o.stdout)) ELSE <<>>
        partialSnippet == IF TextLen(partial) > PartialMaxChars
                          THEN TakeChars(partial, PartialMaxChars) \o Lit("...", 3)
                          ELSE partial
    IN  IF partialSnippet # <<>>
        THEN baseMsg \o Lit("\n\nPartial output before timeout:\n", 33) \o partialSnippet
        ELSE baseMsg

\* the catch block for a runner (or queue) that threw o
handleError(p, q, o) ==
    LET timeoutHit == isTruthyFlag(o.killed) \/ o.signal = "SIGKILL"
        meta == [queued |-> q, exitCode |-> "undefined", signal |-> o.signal,
                 killed |-> o.killed, agentMeta |-> NoMeta]
    IN  IF timeoutHit
        THEN [threw |-> FALSE, payloads |-> << textPayload(timeoutText(p, o)) >>, meta |-> meta]
        ELSE [threw |-> FALSE,
              payloads |-> << textPayload(Lit("Command failed: ", 16) \o Lit(o.message, 4)) >>,
              meta |-> meta]

----------------------------------------------------------------------------
(* Inputs *)

Kinds == {"claude", "opencode", "pi", "codex", "gemini"}

CmdEmpty    == << >>
CmdPiOnly   == << <<"pi">> >>
CmdPiBody   == << <<"pi">>, <<"{{Body}}">> >>
CmdPiPrint  == << <<"pi">>, <<"-p">>, <<"{{Body}}">> >>
CmdTauMode  == << <<"/usr/local/bin/", "tau", ".js">>, <<"--mode">>, <<"text">>, <<"{{Body}}">> >>
CmdOwn(kind) == << <<kind>>, <<"{{Body}}">> >>

\* the reply.command values tried with each agent kind
CommandsFor(kind) ==
    IF kind = "pi"
    THEN {CmdEmpty, CmdPiOnly, CmdPiBody, CmdPiPrint, CmdTauMode, CmdOwn("claude")}
    ELSE IF kind = "claude" THEN {CmdOwn(kind), CmdPiBody}
    ELSE {CmdOwn(kind)}

NoArgs == [set |-> FALSE, v |-> << >>]
SessionOff == [on |-> FALSE, sessionArgBeforeBody |-> "unset",
               sessionArgNew |-> NoArgs, sessionArgResume |-> NoArgs]
Sessions ==
    {SessionOff}
    \cup {[on |-> TRUE, sessionArgBeforeBody |-> b, sessionArgNew |-> NoArgs,
           sessionArgResume |-> NoArgs] : b \in {"unset", "true", "false"}}
    \cup {[on |-> TRUE, sessionArgBeforeBody |-> "unset",
           sessionArgNew |-> [set |-> TRUE, v |-> << <<"--sid">>, <<"{{SessionId}}">> >>],
           sessionArgResume |-> [set |-> TRUE, v |-> << >>]]}

Body == <<"hello">>
Identity == <<"You are Clawd.">>
SystemTemplate == <<"Be brief.">>

\* (isNewSession, isFirstTurnInSession, systemSent) as the session store hands them out:
\* a new session is on its first turn and has not sent the system prompt
TurnStates ==
    {t \in [isNew : BOOLEAN, isFirst : BOOLEAN, sent : BOOLEAN] :
        t.isNew => (t.isFirst /\ ~t.sent)}

DefaultReply == [verboseLevel |-> "off", mediaMaxMb |-> 0, mediaUrl |-> "",
                 timeoutSeconds |-> 600, cwd |-> ""]

\* CommandReplyParams from its argv-shaping part and its reply-shaping part r
MakeParams(k, c, t, s, ts, o, l, i, m, r) ==
    [kind |-> k, command |-> c, template |-> t, session |-> s, isNewSession |-> ts.isNew,
     isFirstTurnInSession |-> ts.isFirst, sendSystemOnce |-> o, systemSent |-> ts.sent,
     thinkLevel |-> l, identityPrefix |-> i, format |-> m, body |-> Body,
     sessionId |-> "sid-1", verboseLevel |-> r.verboseLevel, mediaMaxMb |-> r.mediaMaxMb,
     mediaUrl |-> r.mediaUrl, timeoutSeconds |-> r.timeoutSeconds, cwd |-> r.cwd]

FirstTurn == [isNew |-> TRUE, isFirst |-> TRUE, sent |-> FALSE]

NoResult == [threw |-> FALSE, payloads |-> <<>>,
             meta |-> [queued |-> [set |-> FALSE, ahead |-> 0], exitCode |-> "undefined",
                       signal |-> "undefined", killed |-> "undefined", agentMeta |-> NoMeta]]
NoOutcome == [kind |-> "none", stdout |-> <<>>, stdoutSet |-> FALSE, code |-> "undefined",
              signal |-> "undefined", killed |-> "undefined", message |-> "",
              timedOut |-> FALSE]

\* the command queue before any call: no call made, nothing waiting or running
MaxCalls == 3
Calls == 1..MaxCalls
NoQueue == [calls    |-> [c \in Calls |-> [st |-> "idle", kind |-> "none", ahead |-> 0,
                                          onWait |-> 0, via |-> "none", ok |-> FALSE]],
            fifo     |-> <<>>,
            enqueued |-> <<>>,
            started  |-> <<>>]

\* the session store before any message: no entry, clock at zero, no turn yet
NoSessions ==
    [now |-> 0, entries |-> {}, nextId |-> 1, turns |-> <<>>, beat |-> [outcome |-> "none"]]

\* the onboarding view before it appears
OnboardingClosed ==
    [shown |-> FALSE, seen |-> FALSE, connectionMode |-> "local", currentPage |-> 0,
     monitoringPermissions |-> FALSE, monitoringDiscovery |-> FALSE,
     registered |-> 0, discovering |-> 0, calls |-> <<>>]

\* the test runner before the script starts
NoTestRun ==
    [started |-> FALSE, spawned |-> {}, children |-> {}, exits |-> <<>>, codes |-> <<>>,
     signalled |-> [signal |-> "none", to |-> {}, running |-> {}],
     exited |-> FALSE, status |-> 0]

InitRest ==
    /\ pc = "start"
    /\ argv = <<>>
    /\ bodyIndex = 0
    /\ finalArgv = <<>>
    /\ rpc = [used |-> FALSE, argv |-> <<>>, prompt |-> <<>>]
    /\ queued = [set |-> FALSE, ahead |-> 0]
    /\ outcome = NoOutcome
    /\ result = NoResult
    /\ commandQueue = NoQueue
    /\ sessionStore = NoSessions
    /\ onboarding = OnboardingClosed
    /\ testRun = NoTestRun

\* every argv-shaping combination, with the default reply settings
InitArgv ==
    /\ \E k \in Kinds : \E c \in CommandsFor(k), t \in {<<>>, SystemTemplate}, s \in Sessions,
                           ts \in TurnStates, o \in BOOLEAN, l \in ThinkLevels \cup {"unset"},
                           i \in {<<>>, Identity}, m \in {"unset", "json"} :
         params = MakeParams(k, c, t, s, ts, o, l, i, m, DefaultReply)
    /\ InitRest

\* every reply-shaping combination, for each agent kind with its plain command
Init ==
    /\ \E k \in Kinds : \E c \in {CmdOwn(k), CmdEmpty}, v \in {"off", "on"}, mb \in {0, 1},
                           u \in {"", "/tmp/big.png"} :
         params = MakeParams(k, c, <<>>, SessionOff, FirstTurn, FALSE, "unset", <<>>, "json",
                             [verboseLevel |-> v, mediaMaxMb |-> mb, mediaUrl |-> u,
                              timeoutSeconds |-> 600, cwd |-> ""])
    /\ InitRest

----------------------------------------------------------------------------
(* Steps of runCommandReply *)

MaxAhead == 1

\* if (!reply.command?.length) throw new Error(...)
RejectEmptyCommand ==
    /\ pc = "start"
    /\ Len(params.command) = 0
    /\ pc' = "threw"
    /\ result' = [result EXCEPT !.threw = TRUE]
    /\ UNCHANGED <<params, argv, bodyIndex, finalArgv, rpc, queued, outcome>>
    /\ UNCHANGED <<commandQueue, otherVars>>

\* templating, template prefix, session args, thinking
Compose ==
    /\ pc = "start"
    /\ Len(params.command) > 0
    /\ argv' = withThinking(params).argv
    /\ bodyIndex' = withThinking(params).bodyIndex
    /\ pc' = "composed"
    /\ UNCHANGED <<params, finalArgv, rpc, queued, outcome, result>>
    /\ UNCHANGED <<commandQueue, otherVars>>

\* agent.isInvocation / agent.buildArgs
ApplyAgent ==
    /\ pc = "composed"
    /\ finalArgv' = computeFinalArgv(params, [argv |-> argv, bodyIndex |-> bodyIndex])
    /\ pc' = "ready"
    /\ UNCHANGED <<params, argv, bodyIndex, rpc, queued, outcome, result>>
    /\ UNCHANGED <<commandQueue, otherVars>>

\* enqueue(run, {onWait}): onWait fires when something is ahead; then run() starts
StartRun ==
    /\ pc = "ready"
    /\ \E ahead \in 0..MaxAhead :
         queued' = [set |-> ahead > 0, ahead |-> ahead]
    /\ rpc' = IF params.kind = "pi"
              THEN [used |-> TRUE, argv |-> rpcArgv(finalArgv), prompt |-> rpcPrompt(finalArgv)]
              ELSE [used |-> FALSE, argv |-> finalArgv, prompt |-> <<>>]
    /\ pc' = "running"
    /\ UNCHANGED <<params, argv, bodyIndex, finalArgv, outcome, result>>
    /\ UNCHANGED <<commandQueue, otherVars>>

NextArgv == RejectEmptyCommand \/ Compose \/ ApplyAgent \/ StartRun

\* runCommandReply up to the start of the run, over every argv-shaping input
SpecArgv == InitArgv /\ [][NextArgv]_vars

----------------------------------------------------------------------------
(* The runner's outcomes *)

MaxLines == 2

NoEvent == [type |-> "none", hasMessage |-> FALSE, role |-> "none", contentIsArray |-> FALSE,
            content |-> <<>>, model |-> "undefined"]
TextItem(x) == [type |-> "text", textIsString |-> TRUE, text |-> x]
MessageEnd(role, content, model) ==
    [type |-> "message_end", hasMessage |-> TRUE, role |-> role, contentIsArray |-> TRUE,
     content |-> content, model |-> model]

BlankLine == [k |-> "blank", raw |-> Lit(" ", 1), ev |-> NoEvent]
PlainLine(x) == [k |-> "plain", raw |-> x, ev |-> NoEvent]
JsonLine(id, ev) == [k |-> "json", raw |-> Lit(id, 40), ev |-> ev]

ReplyLines ==
    { BlankLine,
      PlainLine(Lit("lorem", 500)),
      PlainLine(Lit("ipsum", 299)),
      JsonLine("{assistant: done}",
               MessageEnd("assistant", << TextItem(Lit("done", 4)) >>, "m1")),
      JsonLine("{assistant: /tmp/big.png}",
               MessageEnd("assistant", << TextItem(Lit("/tmp/big.png", 12)) >>, "m1")),
      JsonLine("{assistant: see big.png a.png gone.png small.png}",
               MessageEnd("assistant",
                          << TextItem(Lit("see", 3) \o Lit(" ", 1) \o Lit("/tmp/big.png", 12)
                                      \o Lit(" ", 1) \o Lit("https://example.com/a.png", 25)
                                      \o Lit(" ", 1) \o Lit("/tmp/gone.png", 13)
                                      \o Lit(" ", 1) \o Lit("/tmp/small.png", 14)) >>,
                          "m2")),
      JsonLine("{toolResult: ls}",
               MessageEnd("toolResult", << TextItem(Lit("ls", 2)) >>, "undefined")) }

RECURSIVE SeqsUpTo(_, _)
SeqsUpTo(S, n) ==
    IF n = 0 THEN { <<>> }
    ELSE LET shorter == SeqsUpTo(S, n - 1)
         IN  shorter \cup {Append(q, x) : q \in shorter, x \in S}

Stdouts == SeqsUpTo(ReplyLines, MaxLines)

\* what commandRunner / runPiRpc resolve with: { stdout, stderr, code, signal, killed }.
\* timedOut records whether the runner ended the child because timeoutMs passed.
returned(so, c, sg, kl, t) ==
    [kind |-> "returned", stdout |-> so, stdoutSet |-> TRUE, code |-> c, signal |-> sg,
     killed |-> kl, message |-> "", timedOut |-> t]

\* a run that timed out was killed by a signal and has no exit code
possibleReturn(o) ==
    o.timedOut => (o.killed = "true" /\ o.code = "null" /\ o.signal # "null")

\* what the awaited run may reject with: an error carrying killed / signal / stdout
thrown(so, ss, sg, kl, t) ==
    [kind |-> "thrown", stdout |-> so, stdoutSet |-> ss, code |-> "undefined", signal |-> sg,
     killed |-> kl, message |-> "spawn ENOENT", timedOut |-> t]

possibleThrow(o) ==
    /\ ~o.stdoutSet => o.stdout = <<>>
    /\ o.timedOut => o.killed = "true"

\* the run resolves
RunnerReturns ==
    /\ pc = "running"
    /\ \E so \in Stdouts, c \in {"0", "1", "null"}, sg \in {"null", "SIGKILL"},
          kl \in {"true", "false"}, t \in BOOLEAN :
         LET o == returned(so, c, sg, kl, t)
         IN  /\ possibleReturn(o)
             /\ outcome' = o
             /\ result' = handleResult(params, queued, o)
    /\ pc' = "done"
    /\ UNCHANGED <<params, argv, bodyIndex, finalArgv, rpc, queued>>
    /\ UNCHANGED <<commandQueue, otherVars>>

\* the run rejects
RunnerThrows ==
    /\ pc = "running"
    /\ \E so \in Stdouts, ss \in BOOLEAN, sg \in {"undefined", "SIGTERM", "SIGKILL"},
          kl \in {"true", "undefined"}, t \in BOOLEAN :
         LET o == thrown(so, ss, sg, kl, t)
         IN  /\ possibleThrow(o)
             /\ outcome' = o
             /\ result' = handleError(params, queued, o)
    /\ pc' = "done"
    /\ UNCHANGED <<params, argv, bodyIndex, finalArgv, rpc, queued>>
    /\ UNCHANGED <<commandQueue, otherVars>>

Next == RejectEmptyCommand \/ Compose \/ ApplyAgent \/ StartRun \/ RunnerReturns \/ RunnerThrows

\* the whole of runCommandReply, over every reply-shaping input and runner outcome
Spec == Init /\ [][Next]_vars

----------------------------------------------------------------------------
(* Properties *)

\* a is b with some elements left out
RECURSIVE IsSubSeq(_, _)
IsSubSeq(a, b) ==
    IF a = <<>> THEN TRUE
    ELSE IF b = <<>> THEN FALSE
    ELSE IF Head(a) = Head(b) THEN IsSubSeq(Tail(a), Tail(b))
    ELSE IsSubSeq(a, Tail(b))

\* sub occurs in x as a run of consecutive elements
Contains(x, sub) ==
    \E i \in 0..(Len(x) - Len(sub)) : SubSeq(x, i + 1, i + Len(sub)) = sub

Front(a) == SubSeq(a, 1, Len(a) - 1)
Last(a) == a[Len(a)]
RemoveAt(a, i) == SubSeq(a, 1, i - 1) \o SubSeq(a, i + 1, Len(a))

\* the 1-based positions of the arguments that carry the message body
BodyPositions(a) == {i \in 1..Len(a) : Includes(a[i], Body[1])}
HasBodyArg(p) == Len(p.command) > 0 /\ Last(p.command) = <<"{{Body}}">>

Returned == pc = "done" /\ outcome.kind = "returned"
TrimmedStdout == stdoutText(trimLines(outcome.stdout))
NoOutputPayloads == << textPayload(NoOutputText) >>

\* C1: a run that exits with code 0 and whose non-empty trimmed stdout gives no
\* parsed texts (and emits no tool results) is answered from the raw trimmed
\* stdout; "(command produced no output)" is only sent when stdout has no content.
\* Stated for the pi agent, whose parser is parsePiJson.
C1_RawStdoutFallback ==
    (Returned /\ params.kind = "pi" /\ outcome.code = "0" /\ outcome.killed = "false")
    => LET lines  == trimLines(outcome.stdout)
           parsed == agentParseOutput(params.kind, lines)
           raw    == splitMediaFromOutput(TrimmedStdout)
       IN  /\ (/\ TrimmedStdout # <<>>
               /\ trimAndFilter(parsed.texts) = <<>>
               /\ (params.verboseLevel # "on" \/ trimAndFilter(parsed.toolResults.v) = <<>>))
              => (Len(result.payloads) = 1 /\ result.payloads[1].text = raw.text)
           /\ (result.payloads = NoOutputPayloads => TrimmedStdout = <<>>)

\* C2: piSpec.buildArgs puts identityPrefix, a blank line and the body into the
\* body argument and leaves every other argument intact; with sendSystemOnce
\* and systemSent the body is unchanged.
C2_PiIdentityPrefix ==
    (pc \in {"ready", "running"} /\ params.kind = "pi" /\ piIsInvocation(argv)
        /\ HasBodyArg(params) /\ At(argv, bodyIndex) # <<>>)
    => LET body == At(argv, bodyIndex)
           want == IF params.identityPrefix # <<>>
                      /\ ~(params.sendSystemOnce /\ params.systemSent)
                   THEN params.identityPrefix \o <<"\n\n">> \o body
                   ELSE body
       IN  /\ Last(finalArgv) = want
           /\ IsSubSeq(RemoveAt(argv, bodyIndex + 1), Front(finalArgv))
           /\ \A i \in 1..(Len(finalArgv) - 1) :
                ~Includes(finalArgv[i], Identity[1])

\* the final argv the same call would build with thinking off
FinalArgvThinkingOff ==
    LET off == [params EXCEPT !.thinkLevel = "off"]
    IN  computeFinalArgv(off, withThinking(off))

\* C3: for the agents other than pi the thinking cue is appended to the argument
\* that carries the body and to nothing else; level off or absent changes nothing.
C3_ThinkingCue ==
    (pc \in {"ready", "running"} /\ params.kind # "pi" /\ HasBodyArg(params))
    => LET ref == FinalArgvThinkingOff
           j   == CHOOSE i \in BodyPositions(ref) : TRUE
       IN  IF params.thinkLevel \in {"minimal", "low", "medium", "high"}
           THEN /\ Len(finalArgv) = Len(ref)
                /\ finalArgv[j] = ref[j] \o <<" ">> \o thinkingCue(params.thinkLevel)
                /\ \A i \in 1..Len(ref) : i # j => finalArgv[i] = ref[i]
           ELSE finalArgv = ref

ValueFlags == { <<"--session">>, <<"--session-id">>, <<"--resume">>, <<"--sid">>,
                <<"--thinking">> }

\* a without its "--mode <value>" pairs
RECURSIVE WithoutMode(_)
WithoutMode(a) ==
    IF a = <<>> THEN <<>>
    ELSE IF Head(a) = <<"--mode">> THEN WithoutMode(Tail(Tail(a)))
    ELSE <<Head(a)>> \o WithoutMode(Tail(a))

\* C4: over the pi RPC transport the prompt is the composed body, and the RPC
\* argv is the final argv without the body and with exactly one "--mode rpc";
\* the other arguments keep their order and every flag keeps its value.
C4_PiRpcArgv ==
    (pc = "running" /\ params.kind = "pi" /\ HasBodyArg(params))
    => LET j    == CHOOSE i \in BodyPositions(finalArgv) : TRUE
           rest == RemoveAt(finalArgv, j)
       IN  /\ rpc.used
           /\ rpc.prompt = finalArgv[j]
           /\ Cardinality({i \in 1..Len(rpc.argv) : rpc.argv[i] = <<"--mode">>}) = 1
           /\ Contains(rpc.argv, << <<"--mode">>, <<"rpc">> >>)
           /\ WithoutMode(rpc.argv) = WithoutMode(rest)
           /\ \A i \in 1..(Len(rest) - 1) :
                rest[i] \in ValueFlags => Contains(rpc.argv, <<rest[i], rest[i + 1]>>)

\* what the runner captured before the run ended
PartialStdout == IF outcome.stdoutSet THEN TrimmedStdout ELSE <<>>

\* C5: when the run exceeds timeoutMs and the child is killed, the call returns
\* exactly one payload that says "timed out", names timeoutSeconds and carries
\* the trimmed partial stdout, cut to its first 800 characters.
C5_TimeoutFallback ==
    (pc = "done" /\ outcome.timedOut)
    => /\ ~result.threw
       /\ Len(result.payloads) = 1
       /\ LET text == result.payloads[1].text
          IN  /\ Contains(text, Lit("Command timed out after ", 24))
              /\ Contains(text, Lit(ToString(params.timeoutSeconds), 3))
              /\ Contains(text, TakeChars(PartialStdout, PartialMaxChars))
              /\ TextLen(PartialStdout) > PartialMaxChars
                 => ~Contains(text, TakeChars(PartialStdout, PartialMaxChars + 1))

NormalReplyPayloads == buildPayloads(params, replyItems(params, trimLines(outcome.stdout)))

\* C6: a returned result that reports termination by a signal (signal set, exit
\* code null) is answered with an error payload naming the signal, not with
\* the normal reply built from the captured stdout.
C6_KilledBySignal ==
    (Returned /\ ~isNullish(outcome.signal) /\ outcome.code = "null")
    => /\ Len(result.payloads) >= 1
       /\ Contains(result.payloads[1].text, Lit(outcome.signal, 7))
       /\ result.payloads # NormalReplyPayloads

\* the chunks of x after the first chunk whose piece is t (nothing if there is none)
AfterPiece(x, t) ==
    IF \E i \in 1..Len(x) : x[i].t = t
    THEN LET k == CHOOSE i \in 1..Len(x) : x[i].t = t /\ \A j \in 1..(i - 1) : x[j].t # t
         IN  SubSeq(x, k + 1, Len(x))
    ELSE <<>>
WithoutEllipsis(x) ==
    IF x # <<>> /\ Last(x).t = "..." THEN Front(x) ELSE x

NonZeroExit == Returned /\ ~isNullish(outcome.code) /\ outcome.code # "0"

\* C7: a non-zero exit code gives exactly one payload whose text carries the
\* code, the signal when present and an excerpt of at most the first 500
\* characters of the trimmed stdout; no parsed text, tool result or media is
\* emitted, and meta.exitCode is the child's code.
C7_NonZeroExit ==
    NonZeroExit
    => /\ Len(result.payloads) = 1
       /\ LET pl      == result.payloads[1]
              excerpt == WithoutEllipsis(AfterPiece(pl.text, "\n\nOutput: "))
          IN  /\ Head(pl.text).t = "Command exited with code "
              /\ Contains(pl.text, Lit(outcome.code, 1))
              /\ ~isNullish(outcome.signal) => Contains(pl.text, Lit(outcome.signal, 7))
              /\ TextLen(excerpt) <= ExcerptMaxChars
              /\ excerpt = TakeChars(TrimmedStdout, TextLen(excerpt))
              /\ TrimmedStdout # <<>> => excerpt # <<>>
              /\ ~pl.mediaUrl.set /\ ~pl.mediaUrls.set
       /\ result.meta.exitCode = outcome.code

\* a non-zero exit with a signal, more than 500 characters of stdout and parsed texts
C7_Witness ==
    /\ NonZeroExit
    /\ outcome.signal = "SIGKILL"
    /\ TextLen(TrimmedStdout) > ExcerptMaxChars
    /\ trimAndFilter(agentParseOutput(params.kind, trimLines(outcome.stdout)).texts) # <<>>
    /\ Len(result.payloads) = 1

\* C8: whatever the configuration and the outcome of the run, the returned
\* payload list is not empty.
C8_AtLeastOnePayload ==
    pc = "done" => Len(result.payloads) >= 1

\* C9: for every accepted configuration with reply.mode = command and every
\* runner outcome the call resolves with a result and never throws.
C9_NeverThrows ==
    ~result.threw

\* the media a reply item brings to its payload, before the size filter
SourceMedia(item) ==
    IF item.media.set THEN item.media.v
    ELSE IF params.mediaUrl # "" THEN <<params.mediaUrl>> ELSE <<>>
OverCap(url) ==
    ~isHttpUrl(url) /\ fileExists(url) /\ fileSize(url) > params.mediaMaxMb * 1024 * 1024
SameHttp(urls, item) == SelectSeq(urls, isHttpUrl) = SelectSeq(SourceMedia(item), isHttpUrl)
NormalReply ==
    /\ Returned
    /\ isNullish(outcome.code) \/ outcome.code = "0"
    /\ ~(isTruthyFlag(outcome.killed) /\ isNullish(outcome.signal))

\* C10: under mediaMaxMb no payload references a local file above the cap,
\* every http(s) URL is kept, the kept entries keep their order, and mediaUrl
\* is the first element of mediaUrls.
C10_MediaCap ==
    (pc = "done" /\ params.mediaMaxMb # 0)
    => LET items == replyItems(params, trimLines(outcome.stdout))
       IN  /\ \A k \in 1..Len(result.payloads) :
                LET pl == result.payloads[k]
                IN  /\ \A i \in 1..Len(pl.mediaUrls.v) : ~OverCap(pl.mediaUrls.v[i])
                    /\ IF pl.mediaUrl.set
                       THEN Len(pl.mediaUrls.v) > 0 /\ pl.mediaUrl.v = pl.mediaUrls.v[1]
                       ELSE Len(pl.mediaUrls.v) = 0
                    /\ pl.mediaUrls.set
                       => \E n \in 1..Len(items) :
                            /\ pl.text = items[n].text
                            /\ IsSubSeq(pl.mediaUrls.v, SourceMedia(items[n]))
                            /\ SameHttp(pl.mediaUrls.v, items[n])
           /\ NormalReply
              => \A n \in 1..Len(items) :
                   SelectSeq(SourceMedia(items[n]), isHttpUrl) # <<>>
                   => \E k \in 1..Len(result.payloads) :
                        /\ result.payloads[k].text = items[n].text
                        /\ SameHttp(result.payloads[k].mediaUrls.v, items[n])

\* a payload whose oversized first medium was dropped while the rest was kept
C10_Witness ==
    /\ pc = "done"
    /\ params.mediaMaxMb = 1
    /\ \E k \in 1..Len(result.payloads) :
         /\ result.payloads[k].mediaUrls.v =
                <<"https://example.com/a.png", "/tmp/gone.png", "/tmp/small.png">>
         /\ result.payloads[k].mediaUrl.v = "https://example.com/a.png"

----------------------------------------------------------------------------
(* Session flags *)

SessionIdArg == <<"sid-1">>
SessionFlags == {<<"--session-id">>, <<"--resume">>, <<"--session">>, <<"--sid">>}

\* the session flags the agent table prescribes for the turn, overrides applied
ExpectedSessionArgs(p) ==
    LET c == IF p.isNewSession THEN p.session.sessionArgNew ELSE p.session.sessionArgResume
    IN  IF c.set THEN [i \in 1..Len(c.v) |-> IF c.v[i] = <<"{{SessionId}}">>
                                               THEN SessionIdArg ELSE c.v[i]]
        ELSE IF p.kind = "claude"
             THEN (IF p.isNewSession THEN << <<"--session-id">>, SessionIdArg >>
                   ELSE << <<"--resume">>, SessionIdArg >>)
        ELSE IF p.kind = "gemini"
             THEN (IF p.isNewSession THEN <<>> ELSE << <<"--resume">>, SessionIdArg >>)
        ELSE << <<"--session">>, SessionIdArg >>

ArgvBuilt == pc \in {"ready", "running"}

\* C11: with reply.session configured, the argv handed to the runner carries
\* the session flags of the agent kind (claude: --session-id / --resume;
\* codex, opencode, pi: --session; gemini: none / --resume), each followed by
\* the session id, an override replacing the default for its case.
C11_DefaultSessionFlags ==
    (ArgvBuilt /\ params.session.on)
    => LET want == ExpectedSessionArgs(params)
       IN  IF want = <<>>
           THEN \A i \in 1..Len(finalArgv) : finalArgv[i] \notin SessionFlags
           ELSE /\ Contains(finalArgv, want)
                /\ Cardinality({i \in 1..Len(finalArgv) : finalArgv[i] \in SessionFlags}) = 1

\* C12: the session flags sit immediately before the body, which stays last,
\* when sessionArgBeforeBody is true or unset, and after the body when it is
\* false; in both cases bodyIndex designates the body argument.
C12_SessionFlagPosition ==
    (pc = "composed" /\ params.session.on /\ HasBodyArg(params)
        /\ ExpectedSessionArgs(params) # <<>> /\ params.thinkLevel \in {"off", "unset"})
    => LET want == ExpectedSessionArgs(params)
           n    == Len(argv)
           k    == Len(want)
       IN  /\ IF params.session.sessionArgBeforeBody # "false"
              THEN /\ argv[n] = Body
                   /\ SubSeq(argv, n - k, n - 1) = want
              ELSE /\ SubSeq(argv, n - k + 1, n) = want
                   /\ argv[n - k] = Body
           /\ At(argv, bodyIndex) = Body

----------------------------------------------------------------------------
(* Agent streams: runCommandReply over NDJSON streams of a successful run *)

MaxStream == 3

Message(role, content, model) == [MessageEnd(role, content, model) EXCEPT !.type = "message"]
MessageUpdate(role, content, model) ==
    [MessageEnd(role, content, model) EXCEPT !.type = "message_update"]
BadJsonLine(id) == [k |-> "badjson", raw |-> Lit(id, 5), ev |-> NoEvent]

StreamLines ==
    { JsonLine("{message_end assistant: done}",
               MessageEnd("assistant", << TextItem(Lit("done", 4)) >>, "m1")),
      JsonLine("{message assistant: done}",
               Message("assistant", << TextItem(Lit("done", 4)) >>, "m2")),
      JsonLine("{message_end assistant: more}",
               MessageEnd("assistant", << TextItem(Lit("more", 4)) >>, "m1")),
      JsonLine("{message_update assistant: do}",
               MessageUpdate("assistant", << TextItem(Lit("do", 2)) >>, "m1")),
      JsonLine("{message_end toolResult: ls}",
               MessageEnd("toolResult", << TextItem(Lit("ls", 2)) >>, "undefined")),
      JsonLine("{message_update toolResult: l}",
               MessageUpdate("toolResult", << TextItem(Lit("l", 1)) >>, "undefined")),
      JsonLine("{message_end user: hi}",
               MessageEnd("user", << TextItem(Lit("hi", 2)) >>, "undefined")),
      BadJsonLine("{oops"),
      PlainLine(Lit("lorem", 5)) }

StreamKinds == {"pi", "claude"}

InitStream ==
    /\ \E k \in StreamKinds, v \in {"off", "on"} :
         params = MakeParams(k, CmdOwn(k), <<>>, SessionOff, FirstTurn, FALSE, "unset", <<>>,
                             "json", [DefaultReply EXCEPT !.verboseLevel = v])
    /\ InitRest

\* the run resolves with exit code 0 and an agent stream on stdout
StreamReturns ==
    /\ pc = "running"
    /\ \E so \in SeqsUpTo(StreamLines, MaxStream) :
         LET o == returned(so, "0", "null", "false", FALSE)
         IN  /\ outcome' = o
             /\ result' = handleResult(params, queued, o)
    /\ pc' = "done"
    /\ UNCHANGED <<params, argv, bodyIndex, finalArgv, rpc, queued>>
    /\ UNCHANGED <<commandQueue, otherVars>>

NextStream == Compose \/ ApplyAgent \/ StartRun \/ StreamReturns

SpecStream == InitStream /\ [][NextStream]_vars

\* a line that is a completed assistant message
CompletedAssistant(line) ==
    /\ line.k = "json"
    /\ line.ev.type \in {"message", "message_end"}
    /\ line.ev.hasMessage /\ line.ev.role = "assistant" /\ line.ev.contentIsArray
ToolResultLine(line) ==
    /\ line.k = "json"
    /\ line.ev.type \in {"message", "message_end"}
    /\ line.ev.hasMessage /\ line.ev.role = "toolResult"
LineText(line) == line.ev.content[1].text

\* the non-empty texts of the completed assistant messages, in stream order
AssistantTexts(lines) ==
    LET keep(l) == CompletedAssistant(l) /\ l.ev.content # <<>> /\ LineText(l) # <<>>
        sel == SelectSeq(lines, keep)
    IN  [i \in 1..Len(sel) |-> LineText(sel[i])]

\* xs with every run of equal neighbours reduced to one element
RECURSIVE CollapseAdjacent(_)
CollapseAdjacent(xs) ==
    IF Len(xs) <= 1 THEN xs
    ELSE IF xs[1] = xs[2] THEN CollapseAdjacent(Tail(xs))
    ELSE <<xs[1]>> \o CollapseAdjacent(Tail(xs))

StreamDone == pc = "done" /\ outcome.kind = "returned"
PayloadTexts == [i \in 1..Len(result.payloads) |-> result.payloads[i].text]

\* C13: the texts the pi parser returns never hold two adjacent equal
\* elements: consecutive identical completed assistant messages give one text,
\* whatever events lie between them, and a text repeated after a different
\* assistant text is kept.
C13_ParserDedup ==
    (StreamDone /\ params.kind = "pi")
    => LET texts == parsePiJson(trimLines(outcome.stdout)).texts
       IN  /\ \A i \in 1..(Len(texts) - 1) : texts[i] # texts[i + 1]
           /\ texts = CollapseAdjacent(AssistantTexts(outcome.stdout))
           /\ (params.verboseLevel = "off" /\ texts # <<>>) => PayloadTexts = texts

\* the same assistant message twice with a tool result between them
C13_Witness ==
    /\ StreamDone /\ params.kind = "pi" /\ params.verboseLevel = "off"
    /\ Len(outcome.stdout) = 3
    /\ CompletedAssistant(outcome.stdout[1]) /\ ToolResultLine(outcome.stdout[2])
    /\ CompletedAssistant(outcome.stdout[3])
    /\ LineText(outcome.stdout[1]) = LineText(outcome.stdout[3])
    /\ Len(result.payloads) = 1

\* a text repeated after a different assistant text
C13_WitnessRepeat ==
    /\ StreamDone /\ params.kind = "pi"
    /\ AssistantTexts(outcome.stdout) = <<Lit("done", 4), Lit("more", 4), Lit("done", 4)>>
    /\ Len(result.payloads) = 3

PlainTextStdout ==
    /\ outcome.stdout # <<>>
    /\ \A i \in 1..Len(outcome.stdout) : outcome.stdout[i].k = "plain"

\* C14: when stdout is plain text, not a stream of JSON events, parseOutput of
\* every agent kind returns texts with exactly one element, that text.
C14_PlainTextParse ==
    (StreamDone /\ PlainTextStdout)
    => agentParseOutput(params.kind, trimLines(outcome.stdout)).texts = << TrimmedStdout >>

IsToolPayload(pl) == pl.text # <<>> /\ Head(pl.text) = Head(ToolPrefix)
ParsedStdout == agentParseOutput(params.kind, trimLines(outcome.stdout))
ParsedTexts == trimAndFilter(ParsedStdout.texts)
ParsedToolResults == trimAndFilter(ParsedStdout.toolResults.v)

\* C15: payloads made from the agent's tool results are emitted exactly when
\* verboseLevel is on; they follow all assistant-text payloads, which keep the
\* order in which the parser returned them.
C15_ToolResultsOnlyVerbose ==
    StreamDone
    => LET tools == [i \in 1..Len(ParsedToolResults) |-> ToolPrefix \o ParsedToolResults[i]]
           shown == IF params.verboseLevel = "on" THEN tools ELSE <<>>
       IN  /\ (\E k \in 1..Len(result.payloads) : IsToolPayload(result.payloads[k]))
              <=> (params.verboseLevel = "on" /\ ParsedToolResults # <<>>)
           /\ ParsedTexts \o shown # <<>> => PayloadTexts = ParsedTexts \o shown

\* verbose on: a tool result that precedes the assistant text in the stream
\* is emitted after it
C15_Witness ==
    /\ StreamDone /\ params.verboseLevel = "on"
    /\ Len(outcome.stdout) = 3
    /\ ToolResultLine(outcome.stdout[1])
    /\ CompletedAssistant(outcome.stdout[2]) /\ CompletedAssistant(outcome.stdout[3])
    /\ Len(result.payloads) = 3
    /\ IsToolPayload(result.payloads[3])

----------------------------------------------------------------------------
(* The pi parser over streams with malformed lines and other events *)

\* the lines of a stream that are valid JSON objects
ValidJsonLines(lines) == SelectSeq(lines, LAMBDA l : l.k = "json")

\* C25: parsePiJson never throws, and its result (texts, toolResults, meta) is
\* the result of parsing the stream without the lines that are not valid JSON
\* objects (blank lines, plain text, lines on which JSON.parse throws).
C25_MalformedLinesIgnored ==
    (StreamDone /\ params.kind = "pi")
    => /\ parsePiJson(outcome.stdout) = parsePiJson(ValidJsonLines(outcome.stdout))
       /\ parsePiJson(trimLines(outcome.stdout))
            = parsePiJson(ValidJsonLines(outcome.stdout))
       /\ DOMAIN parsePiJson(outcome.stdout) = {"texts", "toolResults", "meta"}

\* a malformed line between two identical assistant messages, after a line of
\* plain text: one text
C25_Witness ==
    /\ StreamDone /\ params.kind = "pi"
    /\ Len(outcome.stdout) = 3
    /\ CompletedAssistant(outcome.stdout[1])
    /\ outcome.stdout[2].k = "badjson"
    /\ CompletedAssistant(outcome.stdout[3])
    /\ LineText(outcome.stdout[1]) = LineText(outcome.stdout[3])
    /\ Len(parsePiJson(outcome.stdout).texts) = 1
    /\ parsePiJson(outcome.stdout).meta.present

\* a malformed line first, then plain text, then a tool result
C25_WitnessLeading ==
    /\ StreamDone /\ params.kind = "pi"
    /\ Len(outcome.stdout) = 3
    /\ outcome.stdout[1].k = "badjson" /\ outcome.stdout[2].k = "plain"
    /\ ToolResultLine(outcome.stdout[3])
    /\ parsePiJson(outcome.stdout).toolResults.set

\* a line holding an event of type message or message_end
ContributingLine(line) == line.k = "json" /\ line.ev.type \in {"message", "message_end"}
RoleLine(line, roles) == line.k = "json" /\ line.ev.hasMessage /\ line.ev.role \in roles

\* the non-empty texts of the tool-result messages, in stream order
ToolTexts(lines) ==
    LET keep(l) == ToolResultLine(l) /\ l.ev.content # <<>> /\ LineText(l) # <<>>
        sel == SelectSeq(lines, keep)
    IN  [i \in 1..Len(sel) |-> LineText(sel[i])]

\* the positions whose line added a text: the texts of the stream up to
\* the line are longer than those of the stream before it
AddedAt(lines) ==
    {i \in 1..Len(lines) :
        Len(parsePiJson(SubSeq(lines, 1, i)).texts)
          > Len(parsePiJson(SubSeq(lines, 1, i - 1)).texts)}

\* C26: only message and message_end events contribute to the result of the
\* pi parser; assistant messages contribute to texts only, messages whose role
\* contains "tool" to toolResults only; meta is present exactly when texts is
\* non-empty and is taken from the last assistant message added to texts;
\* toolResults is absent, never an empty list.
C26_EventClassification ==
    (StreamDone /\ params.kind = "pi")
    => LET lines == outcome.stdout
           r == parsePiJson(lines)
           last == CHOOSE i \in AddedAt(lines) : \A j \in AddedAt(lines) : j <= i
       IN  /\ r = parsePiJson(SelectSeq(lines, ContributingLine))
           /\ r.texts = CollapseAdjacent(AssistantTexts(lines))
           /\ r.toolResults.v = ToolTexts(lines)
           /\ r.texts = parsePiJson(SelectSeq(lines, LAMBDA l : RoleLine(l, {"assistant"}))).texts
           /\ r.toolResults
                = parsePiJson(SelectSeq(lines, LAMBDA l : RoleLine(l, {"toolResult"}))).toolResults
           /\ r.meta.present <=> r.texts # <<>>
           /\ r.meta.present
                => /\ CompletedAssistant(lines[last])
                   /\ r.meta.model = lines[last].ev.model
           /\ r.toolResults.set <=> r.toolResults.v # <<>>

\* an assistant message, the same message again under another model, a tool
\* result: one text, meta of the first message, one tool result
C26_Witness ==
    /\ StreamDone /\ params.kind = "pi"
    /\ Len(outcome.stdout) = 3
    /\ CompletedAssistant(outcome.stdout[1]) /\ CompletedAssistant(outcome.stdout[2])
    /\ outcome.stdout[1].ev.model # outcome.stdout[2].ev.model
    /\ ToolResultLine(outcome.stdout[3])
    /\ Len(parsePiJson(outcome.stdout).texts) = 1
    /\ parsePiJson(outcome.stdout).meta.model = outcome.stdout[1].ev.model
    /\ parsePiJson(outcome.stdout).toolResults.set

\* only streaming updates and a user message: nothing parsed, no meta, no
\* tool results
C26_WitnessUpdates ==
    /\ StreamDone /\ params.kind = "pi"
    /\ Len(outcome.stdout) = 3
    /\ \A i \in 1..3 : outcome.stdout[i].k = "json" /\ ~CompletedAssistant(outcome.stdout[i])
                        /\ ~ToolResultLine(outcome.stdout[i])
    /\ \E i \in 1..3 : outcome.stdout[i].ev.role = "toolResult"
    /\ \E i \in 1..3 : outcome.stdout[i].ev.role = "assistant"
    /\ parsePiJson(outcome.stdout).texts = <<>>
    /\ ~parsePiJson(outcome.stdout).meta.present
    /\ ~parsePiJson(outcome.stdout).toolResults.set

----------------------------------------------------------------------------
(* Turns of a session: runCommandReply called turn after turn *)

InitTurns ==
    /\ \E k \in Kinds, o \in BOOLEAN, ts \in {t \in TurnStates : t.isFirst} :
         \E c \in {CmdOwn(k), << <<k>> >>} :
           params = MakeParams(k, c, SystemTemplate, SessionOff, ts, o, "unset", <<>>,
                               "unset", DefaultReply)
    /\ InitRest

\* the run of the turn resolves, with exit code 0 or 1
TurnEnds ==
    /\ pc = "running"
    /\ \E c \in {"0", "1"} :
         LET o == returned(<< PlainLine(Lit("lorem", 5)) >>, c, "null", "false", FALSE)
         IN  /\ outcome' = o
             /\ result' = handleResult(params, queued, o)
    /\ pc' = "done"
    /\ UNCHANGED <<params, argv, bodyIndex, finalArgv, rpc, queued>>
    /\ UNCHANGED <<commandQueue, otherVars>>

\* the caller's next message: the session store hands out the next turn state.
\* Within a session systemSent never goes back to false; a reset or an expiry
\* starts a new session on its first turn.
NextTurn ==
    /\ pc = "done"
    /\ \E ts \in TurnStates :
         /\ \/ ts.isFirst
            \/ ~ts.isNew /\ (params.systemSent => ts.sent)
         /\ params' = [params EXCEPT !.isNewSession = ts.isNew,
                                     !.isFirstTurnInSession = ts.isFirst,
                                     !.systemSent = ts.sent]
    /\ pc' = "start"
    /\ argv' = <<>> /\ bodyIndex' = 0 /\ finalArgv' = <<>>
    /\ rpc' = [used |-> FALSE, argv |-> <<>>, prompt |-> <<>>]
    /\ queued' = [set |-> FALSE, ahead |-> 0]
    /\ outcome' = NoOutcome /\ result' = NoResult
    /\ UNCHANGED <<commandQueue, otherVars>>

NextTurns == Compose \/ ApplyAgent \/ StartRun \/ TurnEnds \/ NextTurn

SpecTurns == InitTurns /\ [][NextTurns]_vars

TemplateInserted(a) == Len(a) >= 2 /\ a[2] = SystemTemplate
TemplateAbsent(a) == \A i \in 1..Len(a) : ~Includes(a[i], SystemTemplate[1])

\* C16: with sendSystemOnce the templated reply.template is inserted as
\* argv[1], right after the executable, on the first turn of a session and on
\* any turn where systemSent is still false, and is omitted on every later
\* turn once systemSent is true; without sendSystemOnce it is inserted on
\* every turn.  The insertion is the step withTemplatePrefix; for a command
\* that ends in the body the composed and the final argv show the same.
C16_SystemPromptOnce ==
    (pc \in {"composed", "ready", "running", "done"} /\ params.template # <<>>)
    => LET omit == params.sendSystemOnce /\ params.systemSent
                   /\ ~params.isFirstTurnInSession
           a    == withTemplatePrefix(params)
       IN  /\ IF omit THEN a = templatedCommand(params)
              ELSE /\ TemplateInserted(a)
                   /\ a[1] = params.command[1]
                   /\ Tail(Tail(a)) = Tail(templatedCommand(params))
           /\ TemplateAbsent(templatedCommand(params))
           /\ HasBodyArg(params)
              => /\ IF omit THEN TemplateAbsent(argv) ELSE TemplateInserted(argv)
                 /\ pc # "composed"
                    => IF omit THEN TemplateAbsent(finalArgv)
                       ELSE /\ TemplateInserted(finalArgv)
                            /\ TemplateAbsent(Tail(Tail(finalArgv)))
                            /\ finalArgv[1] = params.command[1]

\* a later turn of a session that has already sent the system prompt
C16_Witness ==
    /\ ArgvBuilt /\ params.sendSystemOnce /\ params.systemSent
    /\ ~params.isFirstTurnInSession /\ ~params.isNewSession
    /\ TemplateAbsent(finalArgv) /\ Last(finalArgv) = Body

----------------------------------------------------------------------------
(* Pi flags *)

ComposedThinkingOff == withThinking([params EXCEPT !.thinkLevel = "off"]).argv
ThinkingFlagCount(a) == Cardinality({i \in 1..Len(a) : a[i] = <<"--thinking">>})

\* C17: for pi and a think level other than off the argv holds "--thinking"
\* followed by the level exactly once, before the body and not between
\* another flag and its value; with level off nothing is injected and the
\* body is unchanged.
C17_PiThinkingFlag ==
    (pc = "composed" /\ params.kind = "pi" /\ HasBodyArg(params))
    => LET ref == ComposedThinkingOff
           b   == CHOOSE i \in BodyPositions(ref) : TRUE
       IN  IF params.thinkLevel \in {"off", "unset"}
           THEN argv = ref /\ ThinkingFlagCount(argv) = 0 /\ ref[b] = Body
           ELSE /\ ThinkingFlagCount(argv) = 1
                /\ \E j \in 2..b :
                     /\ argv = SubSeq(ref, 1, j - 1)
                               \o << <<"--thinking">>, <<params.thinkLevel>> >>
                               \o SubSeq(ref, j, Len(ref))
                     /\ ref[j - 1] \notin ValueFlags

PrintCount(a) == Cardinality({i \in 1..Len(a) : a[i] \in {<<"-p">>, <<"--print">>}})
ModeCount(a) == Cardinality({i \in 1..Len(a) : a[i] = <<"--mode">>})
BuiltAgain == piBuildArgs(buildCtx(params, [argv |-> finalArgv,
                                            bodyIndex |-> Len(finalArgv) - 1]))

\* C18: piSpec.buildArgs returns an argv with exactly one print flag and,
\* for format json without a --mode in the input, the adjacent pair
\* "--mode json"; the last argument stays last, the input argv is not
\* mutated, and building again adds no further -p or --mode.
C18_PiPrintModeFlags ==
    (ArgvBuilt /\ params.kind = "pi" /\ piIsInvocation(argv) /\ Len(argv) >= 2)
    => /\ PrintCount(finalArgv) = 1
       /\ (params.format = "json" /\ ModeCount(argv) = 0)
          => Contains(finalArgv, << <<"--mode">>, <<"json">> >>)
       /\ ModeCount(finalArgv) <= 1
       /\ Last(finalArgv) \in {Last(argv), Identity \o <<"\n\n">> \o Last(argv)}
       /\ argv = withThinking(params).argv
       /\ PrintCount(BuiltAgain) = PrintCount(finalArgv)
       /\ ModeCount(BuiltAgain) = ModeCount(finalArgv)

----------------------------------------------------------------------------
(* Concurrent calls of runCommandReply sharing the command queue *)

callVars == <<pc, params, argv, bodyIndex, finalArgv, rpc, queued, outcome, result>>

\* variant in which the runner is invoked before enqueue: C19 must not hold of it
childRunningEarly(call) == call.st \in {"waiting", "running"}

\* the call's agent child is executing: commandRunner / runPiRpc are invoked
\* only inside run(), the function handed to enqueue
childRunning(call) == call.st = "running"

\* variant that serves any waiting call: C20 must not hold of it
mayStartAny(cq, c) == \A d \in Calls : cq.calls[d].st # "running"

\* the queue starts the run of call c: it is the oldest entry and nothing is running
mayStart(cq, c) ==
    /\ cq.fifo # <<>> /\ Head(cq.fifo) = c
    /\ \A d \in Calls : cq.calls[d].st # "running"

InitQueue ==
    /\ params = MakeParams("pi", CmdOwn("pi"), <<>>, SessionOff, FirstTurn, FALSE, "unset",
                           <<>>, "json", DefaultReply)
    /\ InitRest

\* await enqueue(run, { onWait }): the call joins the queue; onWait fires when
\* something is ahead of it
EnqueueCall ==
    /\ \E c \in Calls, k \in {"pi", "claude"} :
         /\ commandQueue.calls[c].st = "idle"
         /\ LET ahead == Len(commandQueue.fifo)
            IN  commandQueue' =
                  [commandQueue EXCEPT
                     !.calls[c] = [st |-> "waiting", kind |-> k, ahead |-> ahead,
                                   onWait |-> IF ahead > 0 THEN 1 ELSE 0,
                                   via |-> "none", ok |-> FALSE],
                     !.fifo = Append(@, c),
                     !.enqueued = Append(@, c)]
    /\ UNCHANGED <<callVars, otherVars>>

\* the queue invokes run(): runPiRpc for pi, commandRunner otherwise
BeginRun ==
    /\ \E c \in Calls :
         /\ commandQueue.calls[c].st = "waiting"
         /\ mayStart(commandQueue, c)
         /\ commandQueue' =
              [commandQueue EXCEPT
                 !.calls[c].st = "running",
                 !.calls[c].via = IF commandQueue.calls[c].kind = "pi"
                                  THEN "runPiRpc" ELSE "commandRunner",
                 !.started = Append(@, c)]
    /\ UNCHANGED <<callVars, otherVars>>

\* variant that keeps the entry of a failed run: C21 must not hold of it
releaseOnSuccess(fifo, c, ok) == IF ok THEN SelectSeq(fifo, LAMBDA d : d # c) ELSE fifo

\* the queue drops the entry of a settled run, resolved or rejected
release(fifo, c, ok) == SelectSeq(fifo, LAMBDA d : d # c)

\* run() resolves or rejects; either way the entry leaves the queue
FinishRun ==
    /\ \E c \in Calls, ok \in BOOLEAN :
         /\ commandQueue.calls[c].st = "running"
         /\ commandQueue' =
              [commandQueue EXCEPT
                 !.calls[c].st = "done",
                 !.calls[c].ok = ok,
                 !.fifo = release(@, c, ok)]
    /\ UNCHANGED <<callVars, otherVars>>

NextQueue == EnqueueCall \/ BeginRun \/ FinishRun

SpecQueue == InitQueue /\ [][NextQueue]_vars

ChildrenRunning == {c \in Calls : childRunning(commandQueue.calls[c])}

\* C19: every agent child of runCommandReply, over the pi RPC path and over
\* the plain command runner, runs inside the function passed to enqueue, so
\* at no instant more than one agent run is executing.
C19_SingleFlight ==
    /\ Cardinality(ChildrenRunning) <= 1
    /\ \A c \in Calls :
         LET call == commandQueue.calls[c]
         IN  /\ childRunning(call) => call.st = "running" /\ Head(commandQueue.fifo) = c
             /\ call.via # "none"
                => call.via = (IF call.kind = "pi" THEN "runPiRpc" ELSE "commandRunner")

\* a pi run executing over RPC while two other calls wait
C19_Witness ==
    \E c \in Calls :
        /\ ChildrenRunning = {c}
        /\ commandQueue.calls[c].via = "runPiRpc"
        /\ \A d \in Calls \ {c} : commandQueue.calls[d].st = "waiting"
        /\ \E d \in Calls \ {c} : commandQueue.calls[d].kind = "claude"

\* C20: runs start in the order in which they were enqueued; none starts
\* before every run enqueued earlier has started and finished or failed.
C20_FifoService ==
    /\ Len(commandQueue.started) <= Len(commandQueue.enqueued)
    /\ commandQueue.started = SubSeq(commandQueue.enqueued, 1, Len(commandQueue.started))
    /\ \A i, j \in 1..Len(commandQueue.enqueued) :
         (i < j /\ commandQueue.calls[commandQueue.enqueued[j]].st \in {"running", "done"})
         => commandQueue.calls[commandQueue.enqueued[i]].st = "done"

\* three calls enqueued out of id order, all started, the first one failed
C20_Witness ==
    /\ Len(commandQueue.started) = MaxCalls
    /\ commandQueue.enqueued[1] # 1
    /\ ~commandQueue.calls[commandQueue.enqueued[1]].ok
    /\ commandQueue.calls[commandQueue.enqueued[1]].st = "done"
    /\ \E c \in Calls : commandQueue.calls[c].onWait = 1 /\ commandQueue.calls[c].ahead = 2

----------------------------------------------------------------------------
(* Queue progress *)

\* every run ends (the runner enforces timeoutMs) and the queue starts the
\* next entry as soon as it may
SpecQueueLive == SpecQueue /\ WF_vars(BeginRun) /\ WF_vars(FinishRun)

\* C21: a run that fails, throws or times out releases the queue: its entry
\* leaves the queue when it settles, and every run enqueued behind it is
\* eventually started.
C21_QueueProgress ==
    /\ [](\A c \in Calls :
            commandQueue.calls[c].st = "done"
            => \A i \in 1..Len(commandQueue.fifo) : commandQueue.fifo[i] # c)
    /\ \A c \in Calls :
         (commandQueue.calls[c].st = "waiting") ~> (commandQueue.calls[c].st = "running")

\* a run has failed and the run enqueued behind it is executing
C21_Witness ==
    \E c, d \in Calls :
        /\ commandQueue.calls[c].st = "done" /\ ~commandQueue.calls[c].ok
        /\ commandQueue.calls[d].st = "running" /\ commandQueue.calls[d].ahead >= 1
        /\ commandQueue.enqueued[1] = c

----------------------------------------------------------------------------
(* The executable *)

\* C28: for every non-empty reply.command the first element of the argv that
\* is executed is the templated reply.command[0]: no cue, flag, template or
\* session argument is written into it or placed before it.
C28_ExecutablePreserved ==
    (ArgvBuilt /\ params.command # <<>>)
    => /\ finalArgv # <<>>
       /\ finalArgv[1] = templatedCommand(params)[1]

----------------------------------------------------------------------------
(* Queue wait metadata *)

\* C27: the meta of every returned result carries queuedMs and queuedAhead
\* exactly when a run was ahead in the queue, with the count onWait was given;
\* onWait writes them once, when the call is enqueued and before its run
\* executes, and with nothing ahead both stay absent on every return path.
C27_QueueWaitMeta ==
    /\ [](pc = "done"
           => /\ result.meta.queued = queued
              /\ result.meta.queued.set <=> queued.ahead >= 1
              /\ ~result.meta.queued.set => result.meta.queued.ahead = 0)
    /\ [][queued' # queued => (pc = "ready" /\ pc' = "running" /\ ~queued.set)]_vars
    /\ [](pc \in {"start", "composed", "ready"} => ~queued.set)

\* a run that waited behind another one and then timed out
C27_Witness ==
    /\ pc = "done" /\ outcome.kind = "thrown" /\ outcome.timedOut
    /\ result.meta.queued.set /\ result.meta.queued.ahead = 1

\* nothing ahead: the fields are absent after a non-zero exit
C27_WitnessNoWait ==
    /\ Returned /\ outcome.kind = "returned" /\ outcome.code = "1"
    /\ ~result.meta.queued.set

----------------------------------------------------------------------------
(* Sessions, abort words and heartbeats *)

MaxTime == 3
MaxIds == 3
IdleMinutes == 1

SessionKeys == {"+1"}
AbortWords == {"stop", "esc", "abort", "wait", "exit"}
ResetTriggers == {"/new"}
InboundBodies == AbortWords \cup ResetTriggers \cup {"/think:high", "keep going"}

\* the directive set of a body: abort word, reset trigger, directive only
parseDirectives(body) ==
    [abortRequested |-> body \in AbortWords,
     resetRequested |-> body \in ResetTriggers,
     directiveOnly |-> body = "/think:high"]

\* the stored sessions of a key
stored(entries, key) == {e \in entries : e.key = key}

\* a session is expired iff now - updatedAt > idleMinutes
expired(e, now) == now - e.updatedAt > IdleMinutes

newSession(key, id, now) ==
    [key |-> key, id |-> id, createdAt |-> now, updatedAt |-> now, abortPending |-> FALSE]

putSessionBeside(entries, e) == entries \cup {e}

\* writing a session replaces what the store held for its key
putSession(entries, e) == (entries \ stored(entries, e.key)) \cup {e}

\* get(key, resetTriggers, idleMinutes): a new session if none exists, if the
\* stored one is expired, or if a reset was requested; else the existing one
getSession(store, key, reset) ==
    LET old == stored(store.entries, key)
        fresh == {e \in old : ~expired(e, store.now) /\ ~reset}
    IN  IF fresh # {}
        THEN [session |-> CHOOSE e \in fresh : TRUE, isNew |-> FALSE]
        ELSE [session |-> newSession(key, store.nextId, store.now), isNew |-> TRUE]

\* forSession(key, updater) reads the stored session, or a new one when the
\* key has none
currentSession(store, key) ==
    LET old == stored(store.entries, key)
    IN  IF old # {}
        THEN [session |-> CHOOSE e \in old : TRUE, isNew |-> FALSE]
        ELSE [session |-> newSession(key, store.nextId, store.now), isNew |-> TRUE]

abortReminderKept(e) == e

\* body composition: the abort reminder is prepended once, the flag cleared
abortReminderUsed(e) == [e EXCEPT !.abortPending = FALSE]

\* touch(key): updatedAt becomes now, on the user-initiated path only
touch(e, now) == [e EXCEPT !.updatedAt = now]

heartbeatTouch(e, now) == touch(e, now)

\* a heartbeat leaves updatedAt alone
heartbeatKeep(e, now) == e

\* the turns taken so far, the last three kept
remember(turns, t) ==
    LET all == Append(turns, t)
    IN  IF Len(all) > 3 THEN Tail(all) ELSE all

AbortedReply == <<"Agent was aborted.">>
AgentReply == <<"(agent reply)">>
AckReply == <<"Thinking level set to high.">>

InitSession ==
    /\ params = MakeParams("pi", CmdOwn("pi"), <<>>, SessionOff, FirstTurn, FALSE, "unset",
                           <<>>, "json", DefaultReply)
    /\ pc = "start"
    /\ argv = <<>>
    /\ bodyIndex = 0
    /\ finalArgv = <<>>
    /\ rpc = [used |-> FALSE, argv |-> <<>>, prompt |-> <<>>]
    /\ queued = [set |-> FALSE, ahead |-> 0]
    /\ outcome = NoOutcome
    /\ result = NoResult
    /\ commandQueue = NoQueue
    /\ sessionStore = NoSessions
    /\ onboarding = OnboardingClosed
    /\ testRun = NoTestRun

sessionFrame == <<callVars, commandQueue, onboarding, testRun>>

\* one inbound message through the reply engine: abort handling, directive-only
\* acknowledgement, session resolution, body composition, the agent run
UserTurn ==
    /\ \E key \in SessionKeys, body \in InboundBodies :
         LET d == parseDirectives(body)
             prior == \E e \in stored(sessionStore.entries, key) : e.abortPending
             idleFor == IF stored(sessionStore.entries, key) = {} THEN 0
                        ELSE sessionStore.now
                             - (CHOOSE e \in stored(sessionStore.entries, key) : TRUE).updatedAt
             got == IF d.abortRequested \/ d.directiveOnly
                    THEN currentSession(sessionStore, key)
                    ELSE getSession(sessionStore, key, d.resetRequested)
             kind == IF d.abortRequested THEN "abort"
                     ELSE IF d.directiveOnly THEN "directive"
                     ELSE IF d.resetRequested THEN "reset" ELSE "normal"
             agent == ~d.abortRequested /\ ~d.directiveOnly
             session ==
                 IF d.abortRequested THEN [got.session EXCEPT !.abortPending = TRUE]
                 ELSE IF d.directiveOnly THEN got.session
                 ELSE touch(abortReminderUsed(got.session), sessionStore.now)
         IN  /\ got.isNew => sessionStore.nextId <= MaxIds
             /\ sessionStore' =
                  [sessionStore EXCEPT
                     !.entries = putSession(@, session),
                     !.nextId = IF got.isNew THEN @ + 1 ELSE @,
                     !.turns = remember(@,
                                  [key |-> key, kind |-> kind, id |-> session.id, at |-> sessionStore.now,
                                   stale |-> idleFor > IdleMinutes, reminded |-> agent /\ prior,
                                   enqueued |-> agent,
                                   reply |-> IF d.abortRequested THEN AbortedReply
                                             ELSE IF d.directiveOnly THEN AckReply
                                             ELSE AgentReply]),
                     !.beat = [outcome |-> "none"]]
    /\ UNCHANGED sessionFrame

\* one heartbeat tick for an active session: skipped when the command queue
\* has something ahead, else fed through the reply engine without touch
Heartbeat ==
    /\ \E key \in SessionKeys, o \in {"skipped", "ran", "suppressed", "failed"} :
         /\ stored(sessionStore.entries, key) # {}
         /\ LET old == CHOOSE e \in stored(sessionStore.entries, key) : TRUE
                session == heartbeatKeep(abortReminderUsed(old), sessionStore.now)
            IN  sessionStore' =
                  IF o = "skipped"
                  THEN [sessionStore EXCEPT !.beat = [outcome |-> o]]
                  ELSE [sessionStore EXCEPT
                          !.entries = putSession(@, session),
                          !.turns = remember(@,
                                       [key |-> key, kind |-> "heartbeat", id |-> session.id,
                                        at |-> sessionStore.now,
                                        stale |-> sessionStore.now - old.updatedAt > IdleMinutes,
                                        reminded |-> old.abortPending, enqueued |-> TRUE,
                                        reply |-> IF o = "suppressed" THEN <<>> ELSE AgentReply]),
                          !.beat = [outcome |-> o]]
    /\ UNCHANGED sessionFrame

\* a minute passes
Tick ==
    /\ sessionStore.now < MaxTime
    /\ sessionStore' = [sessionStore EXCEPT !.now = @ + 1, !.beat = [outcome |-> "none"]]
    /\ UNCHANGED sessionFrame

NextSession == UserTurn \/ Heartbeat \/ Tick

SpecSession == InitSession /\ [][NextSession]_vars

\* the session stored for a key
SessionOf(key) == CHOOSE e \in stored(sessionStore.entries, key) : TRUE

\* the remembered turns of a key, oldest first
TurnsOf(key) == SelectSeq(sessionStore.turns, LAMBDA t : t.key = key)

\* turns i < j of a key with only turns of the given kinds between them
Adjacent(key, i, j, between) ==
    /\ i < j
    /\ \A m \in (i + 1)..(j - 1) : TurnsOf(key)[m].kind \in between

\* C22: an abort word starts and queues no agent run and is answered by the
\* single payload "Agent was aborted."; the next body sent to the agent begins
\* with the abort reminder, the one after it does not.
C22_AbortReminder ==
    \A key \in SessionKeys :
        LET t == TurnsOf(key)
        IN  /\ \A i \in 1..Len(t) :
                 t[i].kind = "abort"
                 => ~t[i].enqueued /\ t[i].reply = AbortedReply /\ ~t[i].reminded
            /\ \A i, j \in 1..Len(t) :
                 (t[i].kind = "abort" /\ Adjacent(key, i, j, {"directive"}) /\ t[j].enqueued)
                 => t[j].reminded
            /\ \A i \in 1..(Len(t) - 2) :
                 (t[i].kind = "abort" /\ t[i + 1].enqueued /\ t[i + 2].enqueued)
                 => t[i + 1].reminded /\ ~t[i + 2].reminded
            /\ (t # <<>> /\ t[Len(t)].enqueued) => ~SessionOf(key).abortPending

\* "stop", then two ordinary messages: the first reminded, the second not
C22_Witness ==
    \E key \in SessionKeys :
        /\ Len(TurnsOf(key)) = 3
        /\ TurnsOf(key)[1].kind = "abort" /\ TurnsOf(key)[1].reply = AbortedReply
        /\ TurnsOf(key)[2].kind = "normal" /\ TurnsOf(key)[2].reminded
        /\ TurnsOf(key)[3].kind = "normal" /\ ~TurnsOf(key)[3].reminded

UpdatedAtOf(store, key) == {e.updatedAt : e \in stored(store.entries, key)}

Resolved(t) == t.kind \in {"normal", "reset"}

\* C24: consecutive ordinary messages of a key within idleMinutes share the
\* session id; a message more than idleMinutes after updatedAt, or one matching
\* a reset trigger, gets a new id; a key never has two sessions, and has one
\* from its first message on.
C24_SessionReuse ==
    \A key \in SessionKeys :
        LET t == TurnsOf(key)
        IN  /\ \A i, j \in 1..Len(t) :
                 (/\ Adjacent(key, i, j, {"heartbeat"})
                  /\ Resolved(t[i]) /\ t[j].kind = "normal"
                  /\ t[j].at - t[i].at <= IdleMinutes)
                 => t[j].id = t[i].id
            /\ \A i, j \in 1..Len(t) :
                 (/\ i < j /\ Resolved(t[j])
                  /\ (t[j].kind = "reset" \/ t[j].stale))
                 => t[j].id # t[i].id
            /\ Cardinality(stored(sessionStore.entries, key)) <= 1
            /\ t # <<>> => Cardinality(stored(sessionStore.entries, key)) = 1
            /\ \A e \in stored(sessionStore.entries, key) : e.updatedAt >= e.createdAt

\* a session reused a minute later and replaced after two idle minutes
C24_Witness ==
    \E key \in SessionKeys :
        /\ Len(TurnsOf(key)) = 3
        /\ \A i \in 1..3 : TurnsOf(key)[i].kind = "normal"
        /\ TurnsOf(key)[2].id = TurnsOf(key)[1].id
        /\ TurnsOf(key)[2].at = TurnsOf(key)[1].at + 1
        /\ TurnsOf(key)[3].id # TurnsOf(key)[2].id
        /\ TurnsOf(key)[3].stale
        /\ Cardinality(sessionStore.entries) = 1

\* "/new" right after an ordinary message: a new session id at once
C24_WitnessReset ==
    \E key \in SessionKeys :
        /\ Len(TurnsOf(key)) >= 2
        /\ TurnsOf(key)[1].kind = "normal" /\ TurnsOf(key)[2].kind = "reset"
        /\ TurnsOf(key)[2].at = TurnsOf(key)[1].at
        /\ TurnsOf(key)[2].id # TurnsOf(key)[1].id

----------------------------------------------------------------------------
(* The onboarding view: pages, connection mode, permission monitoring *)

connectionPageIndex == 1
permissionsPageIndex == 3

\* private var pageOrder: remote setup leaves out the gateway, CLI and
\* workspace pages
pageOrder(mode) ==
    IF mode = "remote" THEN <<0, 1, 3, 6, 7>> ELSE <<0, 1, 2, 3, 4, 5, 6, 7>>

pageCount(mode) == Len(pageOrder(mode))

\* activePageIndex(for: pageCursor)
activePageIndex(mode, pageCursor) ==
    pageOrder(mode)[Min(Max(0, pageCursor), pageCount(mode) - 1) + 1]

\* pageOrder.firstIndex(...), as a set that is empty when there is none
firstIndex(mode, test(_)) ==
    LET hits == {i \in 1..pageCount(mode) : test(pageOrder(mode)[i])}
    IN  IF hits = {} THEN {} ELSE {(CHOOSE i \in hits : \A j \in hits : i <= j) - 1}

\* reconcilePageForModeChange(previousActivePageIndex): the new currentPage
reconcilePageForModeChange(mode, previous) ==
    LET exact == firstIndex(mode, LAMBDA pg : pg = previous)
        next == firstIndex(mode, LAMBDA pg : pg > previous)
    IN  IF exact # {} THEN CHOOSE i \in exact : TRUE
        ELSE IF next # {} THEN CHOOSE i \in next : TRUE
        ELSE Max(0, pageCount(mode) - 1)

\* the last two calls made to PermissionMonitor.shared
logCall(o, call) ==
    LET all == Append(o.calls, call)
    IN  IF Len(all) > 2 THEN Tail(all) ELSE all

updatePermissionMonitoring(o, pageIndex) ==
    LET shouldMonitor == pageIndex = permissionsPageIndex
    IN  IF shouldMonitor /\ ~o.monitoringPermissions
        THEN [o EXCEPT !.monitoringPermissions = TRUE, !.registered = @ + 1,
                       !.calls = logCall(o, "register")]
        ELSE IF ~shouldMonitor /\ o.monitoringPermissions
        THEN [o EXCEPT !.monitoringPermissions = FALSE, !.registered = @ - 1,
                       !.calls = logCall(o, "unregister")]
        ELSE o

updateDiscoveryMonitoring(o, pageIndex) ==
    LET shouldMonitor == pageIndex = connectionPageIndex /\ o.connectionMode = "remote"
    IN  IF shouldMonitor /\ ~o.monitoringDiscovery
        THEN [o EXCEPT !.monitoringDiscovery = TRUE, !.discovering = @ + 1]
        ELSE IF ~shouldMonitor /\ o.monitoringDiscovery
        THEN [o EXCEPT !.monitoringDiscovery = FALSE, !.discovering = @ - 1]
        ELSE o

updateMonitoring(o, pageIndex) ==
    updateDiscoveryMonitoring(updatePermissionMonitoring(o, pageIndex), pageIndex)

\* an assignment to currentPage, with .onChange(of: currentPage) when the
\* value changed
setCurrentPage(o, page) ==
    IF page = o.currentPage THEN o
    ELSE updateMonitoring([o EXCEPT !.currentPage = page],
                          activePageIndex(o.connectionMode, page))

\* .onDisappear: stopPermissionMonitoring and stopDiscovery
disappear(o) ==
    [o EXCEPT !.shown = FALSE,
              !.monitoringPermissions = FALSE,
              !.registered = IF o.monitoringPermissions THEN @ - 1 ELSE @,
              !.calls = IF o.monitoringPermissions THEN logCall(o, "unregister") ELSE @,
              !.monitoringDiscovery = FALSE,
              !.discovering = IF o.monitoringDiscovery THEN @ - 1 ELSE @]

InitOnboarding ==
    /\ params = MakeParams("pi", CmdOwn("pi"), <<>>, SessionOff, FirstTurn, FALSE, "unset",
                           <<>>, "json", DefaultReply)
    /\ pc = "start"
    /\ argv = <<>>
    /\ bodyIndex = 0
    /\ finalArgv = <<>>
    /\ rpc = [used |-> FALSE, argv |-> <<>>, prompt |-> <<>>]
    /\ queued = [set |-> FALSE, ahead |-> 0]
    /\ outcome = NoOutcome
    /\ result = NoResult
    /\ commandQueue = NoQueue
    /\ sessionStore = NoSessions
    /\ \E mode \in {"local", "remote"} :
         onboarding = [OnboardingClosed EXCEPT !.connectionMode = mode]
    /\ testRun = NoTestRun

onboardingFrame == <<callVars, commandQueue, sessionStore, testRun>>

\* .onAppear
Appear ==
    /\ ~onboarding.shown
    /\ onboarding' = updateMonitoring(
                        setCurrentPage([onboarding EXCEPT !.shown = TRUE, !.calls = <<>>], 0), 0)
    /\ UNCHANGED onboardingFrame

\* the window is closed
Disappear ==
    /\ onboarding.shown
    /\ onboarding' = disappear(onboarding)
    /\ UNCHANGED onboardingFrame

handleBack ==
    /\ onboarding.shown
    /\ onboarding' = setCurrentPage(onboarding, Max(0, onboarding.currentPage - 1))
    /\ UNCHANGED onboardingFrame

\* handleNext: the next page, or finish() on the last one
handleNext ==
    /\ onboarding.shown
    /\ onboarding' =
         IF onboarding.currentPage < pageCount(onboarding.connectionMode) - 1
         THEN setCurrentPage(onboarding, onboarding.currentPage + 1)
         ELSE disappear([onboarding EXCEPT !.seen = TRUE])
    /\ UNCHANGED onboardingFrame

\* a page dot is pressed
SelectPage ==
    /\ onboarding.shown
    /\ \E index \in 0..(pageCount(onboarding.connectionMode) - 1) :
         onboarding' = setCurrentPage(onboarding, index)
    /\ UNCHANGED onboardingFrame

\* state.connectionMode changes: .onChange(of: state.connectionMode), then
\* .onChange(of: currentPage) when the cursor moved
ChangeConnectionMode ==
    /\ onboarding.shown
    /\ LET mode == IF onboarding.connectionMode = "local" THEN "remote" ELSE "local"
           changed == [onboarding EXCEPT !.connectionMode = mode]
           oldActive == activePageIndex(mode, changed.currentPage)
           moved == setCurrentPage(changed, reconcilePageForModeChange(mode, oldActive))
       IN  onboarding' =
             updateDiscoveryMonitoring(moved, activePageIndex(mode, moved.currentPage))
    /\ UNCHANGED onboardingFrame

NextOnboarding ==
    Appear \/ Disappear \/ handleBack \/ handleNext \/ SelectPage \/ ChangeConnectionMode

SpecOnboarding == InitOnboarding /\ [][NextOnboarding]_vars

DisplayedPage == activePageIndex(onboarding.connectionMode, onboarding.currentPage)

\* C29: while the onboarding view is shown the page cursor is within
\* [0, pageCount - 1], the displayed page belongs to pageOrder, the permission
\* monitor is registered exactly when the displayed page is the permissions
\* page, and register and unregister alternate.
C29_PermissionMonitoring ==
    /\ onboarding.currentPage \in 0..(pageCount(onboarding.connectionMode) - 1)
    /\ \E i \in 1..pageCount(onboarding.connectionMode) :
         pageOrder(onboarding.connectionMode)[i] = DisplayedPage
    /\ onboarding.registered \in {0, 1}
    /\ Len(onboarding.calls) = 2 => onboarding.calls[1] # onboarding.calls[2]
    /\ onboarding.shown
       => (onboarding.registered = 1 <=> DisplayedPage = permissionsPageIndex)

----------------------------------------------------------------------------
(* The parallel test runner: two vitest children, signals, exit status *)

\* const runs, by name and in run order
runs == <<"unit", "gateway">>

\* how a child can end: [code, signal] of its exit event
ChildExits ==
    {[code |-> "0", signal |-> "null"], [code |-> "1", signal |-> "null"],
     [code |-> "2", signal |-> "null"], [code |-> "null", signal |-> "SIGINT"],
     [code |-> "null", signal |-> "SIGTERM"], [code |-> "null", signal |-> "SIGKILL"]}

NotExited == [code |-> "none", signal |-> "none"]

\* variant that takes a missing code for 0: C30 must not hold of it
resolveCodeOnly(e) ==
    IF e.code = "null" \/ e.code = "0" THEN 0 ELSE IF e.code = "1" THEN 1 ELSE 2

\* resolve(code ?? (signal ? 1 : 0))
resolveCode(e) ==
    IF e.code = "null" THEN (IF e.signal # "null" THEN 1 ELSE 0)
    ELSE IF e.code = "0" THEN 0 ELSE IF e.code = "1" THEN 1 ELSE 2

\* children.delete(child) in the exit handler
exitDeletesChild(children, name) == children \ {name}

\* codes.find((code) => code !== 0) ?? 0
failedOrZero(codes) ==
    LET bad == {i \in 1..Len(codes) : codes[i] # 0}
    IN  IF bad = {} THEN 0 ELSE codes[CHOOSE i \in bad : \A j \in bad : i <= j]

InitTestRun ==
    /\ params = MakeParams("pi", CmdOwn("pi"), <<>>, SessionOff, FirstTurn, FALSE, "unset",
                           <<>>, "json", DefaultReply)
    /\ pc = "start"
    /\ argv = <<>>
    /\ bodyIndex = 0
    /\ finalArgv = <<>>
    /\ rpc = [used |-> FALSE, argv |-> <<>>, prompt |-> <<>>]
    /\ queued = [set |-> FALSE, ahead |-> 0]
    /\ outcome = NoOutcome
    /\ result = NoResult
    /\ commandQueue = NoQueue
    /\ sessionStore = NoSessions
    /\ onboarding = OnboardingClosed
    /\ testRun = NoTestRun

testRunFrame == <<callVars, commandQueue, sessionStore, onboarding>>

\* the script up to "await Promise.all(runs.map(run))": the signal handlers
\* are installed and both children spawned and tracked
StartScript ==
    /\ ~testRun.started
    /\ testRun' = [testRun EXCEPT
                     !.started = TRUE,
                     !.spawned = {runs[i] : i \in 1..Len(runs)},
                     !.children = {runs[i] : i \in 1..Len(runs)},
                     !.exits = [i \in 1..Len(runs) |-> NotExited],
                     !.codes = [i \in 1..Len(runs) |-> -1]]
    /\ UNCHANGED testRunFrame

\* child.on("exit", (code, signal) => ...) for one child
ChildExit ==
    /\ testRun.started /\ ~testRun.exited
    /\ \E i \in 1..Len(runs), e \in ChildExits :
         /\ testRun.exits[i] = NotExited
         /\ testRun' = [testRun EXCEPT
                          !.children = exitDeletesChild(@, runs[i]),
                          !.exits[i] = e,
                          !.codes[i] = resolveCode(e)]
    /\ UNCHANGED testRunFrame

\* process.on("SIGINT" / "SIGTERM"): shutdown(signal) kills the tracked children
shutdown ==
    /\ testRun.started /\ ~testRun.exited
    /\ \E signal \in {"SIGINT", "SIGTERM"} :
         testRun' = [testRun EXCEPT
                       !.signalled =
                          [signal |-> signal, to |-> testRun.children,
                           running |-> {runs[i] : i \in {j \in 1..Len(runs) :
                                                           testRun.exits[j] = NotExited}}]]
    /\ UNCHANGED testRunFrame

\* Promise.all has resolved: process.exit(failed ?? 0)
ScriptExit ==
    /\ testRun.started /\ ~testRun.exited
    /\ \A i \in 1..Len(runs) : testRun.codes[i] # -1
    /\ testRun' = [testRun EXCEPT !.exited = TRUE, !.status = failedOrZero(testRun.codes)]
    /\ UNCHANGED testRunFrame

NextTestRun == StartScript \/ ChildExit \/ shutdown \/ ScriptExit

SpecTestRun == InitTestRun /\ [][NextTestRun]_vars

\* the status a child's exit stands for: its code, or 1 when a signal ended it
ChildStatus(i) ==
    LET e == testRun.exits[i]
    IN  IF e.signal # "null" THEN 1
        ELSE IF e.code = "0" THEN 0 ELSE IF e.code = "1" THEN 1 ELSE 2

HasExited(i) == testRun.exits[i] # NotExited

\* C30: the script exits only after both children have exited; its status is 0
\* exactly when every child exited with code 0, else the first non-zero status
\* in run order, a signal counting as 1; the tracked set is the set of children
\* spawned and not yet exited, and a SIGINT or SIGTERM goes to exactly those
\* without ending the script.
C30_ParallelTestRunner ==
    /\ testRun.exited => \A i \in 1..Len(runs) : HasExited(i)
    /\ testRun.exited
       => /\ testRun.status = 0
             <=> \A i \in 1..Len(runs) :
                   testRun.exits[i].code = "0" /\ testRun.exits[i].signal = "null"
          /\ testRun.status # 0
             => \E i \in 1..Len(runs) :
                  /\ ChildStatus(i) = testRun.status
                  /\ \A j \in 1..(i - 1) : ChildStatus(j) = 0
    /\ testRun.started
       => testRun.children
            = {c \in testRun.spawned : \E i \in 1..Len(runs) : runs[i] = c /\ ~HasExited(i)}
    /\ testRun.signalled.to = testRun.signalled.running

\* SIGINT forwarded to the gateway child alone, the unit child having failed
\* with code 2 before; gateway is ended by the signal and the script exits 2
C30_Witness ==
    /\ testRun.exited
    /\ testRun.exits[1] = [code |-> "2", signal |-> "null"]
    /\ testRun.signalled = [signal |-> "SIGINT", to |-> {"gateway"}, running |-> {"gateway"}]
    /\ testRun.exits[2] = [code |-> "null", signal |-> "SIGINT"]
    /\ testRun.status = 2

\* unit passes and gateway is ended by a signal: status 1
C30_WitnessSignal ==
    /\ testRun.exited
    /\ testRun.exits[1].code = "0" /\ testRun.exits[2].signal = "SIGTERM"
    /\ testRun.status = 1

====
